---- MODULE Spec2Model ----
(***************************************************************************)
(* A model of the hybrid ML + LLM analysis pipeline of cloud-security-ml:  *)
(* HybridAnalyzer (src/src/api/hybrid_analyzer.py), the two intent         *)
(* analyzers (src/src/llm/llm_analyzer.py, src/src/llm/context_analyzer.py)*)
(* the provider configuration (src/src/llm/llm_config.py) and the          *)
(* Terraform parser (src/src/ingestion/parse_terraform.py).                *)
(*                                                                         *)
(* Python floats are IEEE-754 binary64 numbers.  The score arithmetic of   *)
(* the pipeline is modelled bit-exactly: a float is a sign, a 53-bit       *)
(* mantissa and an exponent, and *, + and round() round as CPython does.   *)
(* Mantissas do not fit TLC's integers, so they are kept as little-endian  *)
(* sequences of 15-bit limbs.                                              *)
(***************************************************************************)
EXTENDS Integers, Sequences, FiniteSets, TLC

(***************************************************************************)
(* Natural numbers of arbitrary size: <<l1, ..., ln>> is                   *)
(* l1 + l2*Base + ... + ln*Base^(n-1), with ln # 0; zero is << >>.         *)
(***************************************************************************)
Base == 2^15

RECURSIVE BigNorm(_)
BigNorm(a) ==
  IF a = << >> THEN << >>
  ELSE IF a[Len(a)] = 0 THEN BigNorm(SubSeq(a, 1, Len(a) - 1))
  ELSE a

\* -1, 0 or 1 as a < b, a = b or a > b
BigCmp(a, b) ==
  LET RECURSIVE CmpFrom(_)
      CmpFrom(i) ==
        IF i = 0 THEN 0
        ELSE IF a[i] < b[i] THEN -1
        ELSE IF a[i] > b[i] THEN 1
        ELSE CmpFrom(i - 1)
  IN  IF Len(a) < Len(b) THEN -1
      ELSE IF Len(a) > Len(b) THEN 1
      ELSE CmpFrom(Len(a))

BigAdd(a, b) ==
  LET RECURSIVE AddC(_, _, _)
      AddC(u, v, carry) ==
        IF u = << >> /\ v = << >> THEN (IF carry = 0 THEN << >> ELSE <<carry>>)
        ELSE LET x == IF u = << >> THEN 0 ELSE u[1]
                 y == IF v = << >> THEN 0 ELSE v[1]
                 s == x + y + carry
             IN  <<s % Base>> \o AddC(IF u = << >> THEN u ELSE Tail(u),
                                      IF v = << >> THEN v ELSE Tail(v),
                                      s \div Base)
  IN  AddC(a, b, 0)

\* a - b, for a >= b
BigSub(a, b) ==
  LET RECURSIVE SubB(_, _, _)
      SubB(u, v, borrow) ==
        IF u = << >> THEN << >>
        ELSE LET y == IF v = << >> THEN 0 ELSE v[1]
                 d == u[1] - y - borrow
             IN  <<d % Base>> \o SubB(Tail(u),
                                      IF v = << >> THEN v ELSE Tail(v),
                                      IF d < 0 THEN 1 ELSE 0)
  IN  BigNorm(SubB(a, b, 0))

\* a * k, for 0 <= k <= Base
BigMulSmall(a, k) ==
  LET RECURSIVE MulC(_, _)
      MulC(u, carry) ==
        IF u = << >> THEN (IF carry = 0 THEN << >> ELSE <<carry>>)
        ELSE LET p == u[1] * k + carry
             IN  <<p % Base>> \o MulC(Tail(u), p \div Base)
  IN  IF k = 0 THEN << >> ELSE MulC(a, 0)

RECURSIVE BigMul(_, _)
BigMul(a, b) ==
  IF a = << >> \/ b = << >> THEN << >>
  ELSE LET rest == BigMul(a, Tail(b))
       IN  BigAdd(BigMulSmall(a, b[1]),
                  IF rest = << >> THEN << >> ELSE <<0>> \o rest)

\* <<quotient, remainder>> of a by d, for 0 < d <= Base; limbs from the top
BigDivSmall(a, d) ==
  LET RECURSIVE DivR(_, _)
      DivR(i, rem) ==
        IF i = 0 THEN <<<< >>, rem>>
        ELSE LET cur  == rem * Base + a[i]
                 rest == DivR(i - 1, cur % d)
             IN  <<rest[1] \o <<cur \div d>>, rest[2]>>
      r == DivR(Len(a), 0)
  IN  <<BigNorm(r[1]), r[2]>>

\* a * 2^s
BigShl(a, s) ==
  IF a = << >> THEN << >>
  ELSE [i \in 1..(s \div 15) |-> 0] \o BigMulSmall(a, 2^(s % 15))

\* floor(a / 2^s)
BigShr(a, s) ==
  IF Len(a) <= s \div 15 THEN << >>
  ELSE BigDivSmall(SubSeq(a, (s \div 15) + 1, Len(a)), 2^(s % 15))[1]

BigBitLen(a) ==
  LET RECURSIVE NatBitLen(_)
      NatBitLen(n) == IF n = 0 THEN 0 ELSE 1 + NatBitLen(n \div 2)
  IN  IF a = << >> THEN 0 ELSE 15 * (Len(a) - 1) + NatBitLen(a[Len(a)])

(***************************************************************************)
(* Python float: IEEE-754 binary64, round to nearest, ties to even.        *)
(* [neg, m, e] is (-1)^neg * m * 2^e, with m of exactly MantBits bits, or  *)
(* m = << >> and e = 0 for zero.  The values of the model stay far from    *)
(* the overflow and subnormal ranges.                                      *)
(***************************************************************************)
MantBits == 53

FZero == [neg |-> FALSE, m |-> << >>, e |-> 0]

\* The float nearest to (-1)^neg * (p + f) * 2^e, where 0 < f < 1 if sticky
\* and f = 0 otherwise
FRound(neg, p, e, sticky) ==
  LET len == BigBitLen(p)
  IN  IF p = << >> THEN FZero
      ELSE IF len <= MantBits
      THEN [neg |-> neg, m |-> BigShl(p, MantBits - len), e |-> e - (MantBits - len)]
      ELSE LET s    == len - MantBits
               q    == BigShr(p, s)
               rem  == BigSub(p, BigShl(q, s))
               c    == BigCmp(rem, BigShl(<<1>>, s - 1))
               odd  == q # << >> /\ q[1] % 2 = 1
               up   == c = 1 \/ (c = 0 /\ (sticky \/ odd))
               q2   == IF up THEN BigAdd(q, <<1>>) ELSE q
           IN  IF BigBitLen(q2) > MantBits
               THEN [neg |-> neg, m |-> BigShr(q2, 1), e |-> e + s + 1]
               ELSE [neg |-> neg, m |-> q2, e |-> e + s]

\* The float a literal or a parsed number n/d denotes (d > 0): the quotient
\* is taken to 75 fractional bits, which leaves more than MantBits + 1 bits
FromRatio(n, d) ==
  LET RECURSIVE BigOfNat(_)
      BigOfNat(k) == IF k = 0 THEN << >> ELSE <<k % Base>> \o BigOfNat(k \div Base)
      a  == IF n < 0 THEN -n ELSE n
      qr == BigDivSmall(BigShl(BigOfNat(a), 75), d)
  IN  FRound(n < 0, qr[1], -75, qr[2] # 0)

\* x * y
FMul(x, y) ==
  FRound(x.neg # y.neg, BigMul(x.m, y.m), x.e + y.e, FALSE)

\* x + y
FAdd(x, y) ==
  IF x.m = << >> THEN y
  ELSE IF y.m = << >> THEN x
  ELSE LET e0 == IF x.e < y.e THEN x.e ELSE y.e
           a  == BigShl(x.m, x.e - e0)
           b  == BigShl(y.m, y.e - e0)
       IN  IF x.neg = y.neg THEN FRound(x.neg, BigAdd(a, b), e0, FALSE)
           ELSE IF BigCmp(a, b) >= 0 THEN FRound(x.neg, BigSub(a, b), e0, FALSE)
           ELSE FRound(y.neg, BigSub(b, a), e0, FALSE)

\* -1, 0 or 1 as x < y, x = y or x > y
FCmp(x, y) ==
  LET \* -1, 0 or 1 as |x| < |y|, |x| = |y| or |x| > |y|
      abs == IF x.m = << >> /\ y.m = << >> THEN 0
             ELSE IF x.m = << >> THEN -1
             ELSE IF y.m = << >> THEN 1
             ELSE IF x.e < y.e THEN -1
             ELSE IF x.e > y.e THEN 1
             ELSE BigCmp(x.m, y.m)
  IN  IF x.neg /\ ~y.neg THEN (IF x.m = << >> /\ y.m = << >> THEN 0 ELSE -1)
      ELSE IF ~x.neg /\ y.neg THEN (IF x.m = << >> /\ y.m = << >> THEN 0 ELSE 1)
      ELSE IF x.neg THEN -abs
      ELSE abs

FLt(x, y) == FCmp(x, y) < 0
FLe(x, y) == FCmp(x, y) <= 0
FGt(x, y) == FCmp(x, y) > 0

\* min(x, y) and max(x, y) of Python: the first argument unless the second
\* is strictly smaller (larger)
FMin(x, y) == IF FLt(y, x) THEN y ELSE x
FMax(x, y) == IF FGt(y, x) THEN y ELSE x

\* round(x, 2), as the number of hundredths of its result: CPython rounds
\* the exact binary value of x to two decimals, ties to even, and returns
\* the float nearest to that decimal
Round2(x) ==
  IF x.m = << >> THEN 0
  ELSE LET RECURSIVE BigToNat(_)
           BigToNat(a) == IF a = << >> THEN 0 ELSE a[1] + Base * BigToNat(Tail(a))
           p   == BigMulSmall(x.m, 100)
           s   == -x.e
           q   == BigShr(p, s)
           rem == BigSub(p, BigShl(q, s))
           c   == BigCmp(rem, BigShl(<<1>>, s - 1))
           up  == c = 1 \/ (c = 0 /\ q # << >> /\ q[1] % 2 = 1)
           h   == BigToNat(q) + (IF up THEN 1 ELSE 0)
       IN  IF x.neg THEN -h ELSE h

(***************************************************************************)
(* Strings that the code inspects are sequences of one-character strings.  *)
(***************************************************************************)
Upper == <<"A", "B", "C", "D", "E", "F", "G", "H", "I", "J", "K", "L", "M",
          "N", "O", "P", "Q", "R", "S", "T", "U", "V", "W", "X", "Y", "Z">>
LowerOf == <<"a", "b", "c", "d", "e", "f", "g", "h", "i", "j", "k", "l", "m",
            "n", "o", "p", "q", "r", "s", "t", "u", "v", "w", "x", "y", "z">>

\* str.lower()
Lower(s) ==
  [i \in 1..Len(s) |->
     IF \E k \in 1..Len(Upper) : Upper[k] = s[i]
     THEN LowerOf[CHOOSE k \in 1..Len(Upper) : Upper[k] = s[i]]
     ELSE s[i]]

\* sub in s
Contains(sub, s) ==
  \E i \in 0..(Len(s) - Len(sub)) : SubSeq(s, i + 1, i + Len(sub)) = sub

(***************************************************************************)
(* Resources, as the HCL parser hands them over: type, name and the        *)
(* properties the feature extractor reads.  A property that may be absent  *)
(* is [has |-> FALSE, ...]; versioning, logging and the encryption         *)
(* configuration come as a mapping ("map") or as a sequence of mappings    *)
(* ("list") of `n` elements, `empty` saying whether the mapping (the first *)
(* one of a list) holds no key.                                            *)
(***************************************************************************)
Absent == "absent"

\* dict.get: a key that is present with its value, or an absent key
Some(v) == [has |-> TRUE, val |-> v]
None == [has |-> FALSE, val |-> << >>]

\* cors_rule: absent, one mapping ("map") or a list of mappings; `wildcard`
\* says whether some rule's allowed_origins holds "*"
Cors(shape, n, wildcard) == [shape |-> shape, n |-> n, wildcard |-> wildcard]
NoCors == Cors(Absent, 0, FALSE)

NoBlock  == [shape |-> Absent, n |-> 0, empty |-> TRUE, enabled |-> FALSE, mfa_delete |-> FALSE]
MapBlock(empty, enabled, mfa) ==
  [shape |-> "map", n |-> 1, empty |-> empty, enabled |-> enabled, mfa_delete |-> mfa]
ListBlock(n, empty, enabled, mfa) ==
  [shape |-> "list", n |-> n, empty |-> empty, enabled |-> enabled, mfa_delete |-> mfa]

Props(acl, sse, versioning, logging, bucket, tags, lifecycle, cors) ==
  [acl |-> acl, sse |-> sse, versioning |-> versioning, logging |-> logging,
   bucket |-> bucket, tags |-> tags, lifecycle_rule |-> lifecycle, cors_rule |-> cors]

\* resource "aws_s3_bucket" "customer_db": public bucket named after customer data
ResCustomerDb ==
  [type |-> "aws_s3_bucket", name |-> "customer_db",
   properties |-> Props(Some(<<"p", "u", "b", "l", "i", "c", "-", "r", "e", "a", "d">>), NoBlock, NoBlock, NoBlock,
                        Some(<<"P", "r", "o", "d", "-", "C", "u", "s", "t", "o", "m", "e", "r">>), {}, 0, NoCors)]

\* resource "aws_s3_bucket" "secure_data": private and encrypted
ResSecureData ==
  [type |-> "aws_s3_bucket", name |-> "secure_data",
   properties |-> Props(Some(<<"p", "r", "i", "v", "a", "t", "e">>), ListBlock(1, FALSE, FALSE, FALSE), NoBlock, NoBlock,
                        Some(<<"l", "o", "g", "s">>), {"Environment", "Owner", "Purpose"}, 1, NoCors)]

\* resource "aws_s3_bucket" "marketing_site": public website with a Purpose tag
ResMarketingSite ==
  [type |-> "aws_s3_bucket", name |-> "marketing_site",
   properties |-> Props(Some(<<"p", "u", "b", "l", "i", "c", "-", "r", "e", "a", "d">>), NoBlock, MapBlock(FALSE, TRUE, FALSE),
                        MapBlock(FALSE, FALSE, FALSE),
                        Some(<<"w", "e", "b", "s", "i", "t", "e">>), {"Purpose"}, 0, Cors("list", 1, TRUE))]

\* resource "aws_s3_bucket" "versioned": the versioning block comes as a list
ResVersioned ==
  [type |-> "aws_s3_bucket", name |-> "versioned",
   properties |-> Props(None, ListBlock(1, FALSE, FALSE, FALSE), ListBlock(1, FALSE, TRUE, FALSE),
                        ListBlock(1, FALSE, FALSE, FALSE),
                        Some(<<"B", "A", "C", "K", "U", "P">>), {}, 0, NoCors)]

\* resource "aws_security_group" "ssh": no bucket properties at all
ResSsh ==
  [type |-> "aws_security_group", name |-> "ssh",
   properties |-> Props(None, NoBlock, NoBlock, NoBlock, None, {}, 0, NoCors)]

(***************************************************************************)
(* Input texts: "empty" is the empty string, "invalid" is text the HCL     *)
(* parser rejects, "hcl" is parseable text declaring `resources`.          *)
(***************************************************************************)
Text(kind, resources) == [kind |-> kind, resources |-> resources]

Texts ==
  { Text("empty", << >>), Text("invalid", << >>), Text("hcl", << >>),
    Text("hcl", <<ResCustomerDb>>), Text("hcl", <<ResSecureData>>),
    Text("hcl", <<ResMarketingSite>>), Text("hcl", <<ResVersioned>>),
    Text("hcl", <<ResSsh>>),
    Text("hcl", <<ResCustomerDb, ResSecureData>>),
    Text("hcl", <<ResSecureData, ResCustomerDb>>) }

\* the last resource instead of the first
last_resource(resources) == resources[Len(resources)]

\* analyze, line 33: parsed['resources'][0]
first_resource(resources) == resources[1]

\* parse_terraform_file without its except clause: the rejection propagates
parse_terraform_file_uncaught(text) ==
  IF text.kind = "invalid"
  THEN [status |-> "raised", resources |-> << >>]
  ELSE [status |-> "ok", resources |-> text.resources]

\* parse_terraform_file: None ("none") when hcl2 rejects the text (the
\* exception is caught), else the resources in declaration order.  The empty
\* text holds no resource block.
parse_terraform_file(text) ==
  IF text.kind = "invalid"
  THEN [status |-> "none", resources |-> << >>]
  ELSE [status |-> "ok", resources |-> text.resources]

(***************************************************************************)
(* extract_security_features (the second definition of the file, which is  *)
(* the one in effect).  [raised, features]: raised when the code raises.   *)
(***************************************************************************)
SensitiveKeywords ==
  << <<"c", "u", "s", "t", "o", "m", "e", "r">>, <<"u", "s", "e", "r">>,
     <<"p", "e", "r", "s", "o", "n", "a", "l">>, <<"d", "a", "t", "a">>,
     <<"b", "a", "c", "k", "u", "p">>, <<"p", "r", "o", "d">> >>

RequiredTags == <<"Environment", "Owner", "Purpose">>

NoFeatures ==
  [public_access |-> 0, encryption_enabled |-> 0, versioning_enabled |-> 0,
   logging_enabled |-> 0, sensitive_naming |-> 0, has_tags |-> 0,
   mfa_delete_enabled |-> 0, has_lifecycle_policy |-> 0, risky_cors |-> 0,
   tag_quality |-> FZero]

\* truthiness of a versioning/logging value: a non-empty mapping or list
Truthy(block) ==
  CASE block.shape = Absent -> FALSE
    [] block.shape = "map"  -> ~block.empty
    [] block.shape = "list" -> block.n > 0

\* lines 63-64, with the key required to hold a non-empty value
has_encryption_truthy(properties) == Truthy(properties.sse)

\* lines 63-64: 'server_side_encryption_configuration' in properties
has_encryption(properties) == properties.sse.shape # Absent

\* lines 99-104, without the division by len(required_tags)
tag_quality_count(tags) ==
  IF tags # {}
  THEN FromRatio(Cardinality({i \in 1..Len(RequiredTags) : RequiredTags[i] \in tags}), 1)
  ELSE FZero

\* lines 99-104
tag_quality(tags) ==
  IF tags # {}
  THEN FromRatio(Cardinality({i \in 1..Len(RequiredTags) : RequiredTags[i] \in tags}),
                 Len(RequiredTags))
  ELSE FZero

extract_security_features(resource) ==
  LET properties  == resource.properties
      acl         == IF properties.acl.has THEN properties.acl.val ELSE <<"p", "r", "i", "v", "a", "t", "e">>
      versioning  == properties.versioning
      bucket_name == IF properties.bucket.has THEN properties.bucket.val ELSE << >>
      tags        == properties.tags
      cors        == properties.cors_rule
  IN  IF versioning.shape = "list"
      THEN \* versioning.get on a list: AttributeError
           [raised |-> TRUE, features |-> NoFeatures]
      ELSE [raised |-> FALSE,
            features |->
              [public_access |-> IF Contains(<<"p", "u", "b", "l", "i", "c">>, acl) THEN 1 ELSE 0,
               encryption_enabled |-> IF has_encryption(properties) THEN 1 ELSE 0,
               versioning_enabled |->
                 IF versioning.shape = "map" /\ versioning.enabled THEN 1 ELSE 0,
               logging_enabled |-> IF Truthy(properties.logging) THEN 1 ELSE 0,
               sensitive_naming |->
                 IF \E k \in 1..Len(SensitiveKeywords) :
                      Contains(SensitiveKeywords[k], Lower(bucket_name))
                 THEN 1 ELSE 0,
               has_tags |-> IF tags # {} THEN 1 ELSE 0,
               mfa_delete_enabled |->
                 IF versioning.shape = "map" /\ versioning.mfa_delete THEN 1 ELSE 0,
               has_lifecycle_policy |-> IF properties.lifecycle_rule > 0 THEN 1 ELSE 0,
               risky_cors |->
                 IF cors.shape # Absent /\ cors.n > 0 /\ cors.wildcard THEN 1 ELSE 0,
               tag_quality |-> tag_quality(tags)]]

\* The resources the extractor is applied to on its own: every combination
\* of these values of the properties it reads.
Resources ==
  LET AclValues ==
        {None, Some(<<"p", "u", "b", "l", "i", "c", "-", "r", "e", "a", "d">>),
         Some(<<"p", "r", "i", "v", "a", "t", "e">>), Some(<<"P", "u", "b", "l", "i", "c">>)}
      EncryptionValues ==
        {NoBlock, MapBlock(TRUE, FALSE, FALSE), ListBlock(1, FALSE, FALSE, FALSE)}
      VersioningValues ==
        {NoBlock, MapBlock(TRUE, FALSE, FALSE), MapBlock(FALSE, FALSE, FALSE),
         MapBlock(FALSE, TRUE, FALSE), MapBlock(FALSE, TRUE, TRUE),
         ListBlock(1, FALSE, TRUE, FALSE), ListBlock(0, TRUE, FALSE, FALSE)}
      LoggingValues ==
        {NoBlock, MapBlock(TRUE, FALSE, FALSE), MapBlock(FALSE, FALSE, FALSE),
         ListBlock(1, TRUE, FALSE, FALSE), ListBlock(1, FALSE, FALSE, FALSE),
         ListBlock(0, TRUE, FALSE, FALSE)}
      BucketValues ==
        {None, Some(<<"l", "o", "g", "s">>),
         Some(<<"P", "r", "o", "d", "-", "C", "u", "s", "t", "o", "m", "e", "r">>),
         Some(<<"B", "A", "C", "K", "U", "P">>)}
      TagValues == {{}, {"Purpose"}, {"Environment", "Owner", "Purpose"}, {"Team"}}
      CorsValues ==
        {NoCors, Cors("list", 1, TRUE), Cors("map", 1, FALSE), Cors("list", 0, FALSE)}
  IN  {[type |-> "aws_s3_bucket", name |-> "bucket1",
        properties |-> Props(acl, sse, versioning, logging, bucket, tags, lifecycle, cors)] :
         acl \in AclValues, sse \in EncryptionValues, versioning \in VersioningValues,
         logging \in LoggingValues, bucket \in BucketValues, tags \in TagValues,
         lifecycle \in 0..1, cors \in CorsValues}

\* HybridAnalyzer._list_problems
_list_problems(features) ==
  LET problems ==
        (IF features.public_access # 0 THEN <<"Public access enabled">> ELSE << >>)
        \o (IF features.encryption_enabled = 0 THEN <<"No encryption">> ELSE << >>)
        \o (IF features.sensitive_naming # 0 THEN <<"Sensitive naming pattern">> ELSE << >>)
  IN  IF problems # << >> THEN problems ELSE <<"No major issues">>

\* identify_problems of the statistical-only path (analyzer.py, 122-145);
\* the strings are kept without their leading pictograph
identify_problems(features) ==
  LET problems ==
        (IF features.public_access # 0 THEN <<"Public access enabled">> ELSE << >>)
        \o (IF features.encryption_enabled = 0 THEN <<"No encryption configured">> ELSE << >>)
        \o (IF features.versioning_enabled = 0 THEN <<"Versioning not enabled">> ELSE << >>)
        \o (IF features.logging_enabled = 0 THEN <<"Logging not enabled">> ELSE << >>)
        \o (IF features.sensitive_naming # 0
            THEN <<"Sensitive data naming pattern detected">> ELSE << >>)
        \o (IF features.has_tags = 0 THEN <<"No tags configured">> ELSE << >>)
  IN  IF problems # << >> THEN problems ELSE <<"No obvious problems detected">>

(***************************************************************************)
(* Scores.  The classifier's probability and the numbers of a model reply  *)
(* are drawn from the grid n/Scale.                                        *)
(***************************************************************************)
Scale == 20
LlmOver == 2

\* predict_proba of the classifier: a probability
MlScores == {FromRatio(n, Scale) : n \in 0..Scale}

\* predict_risk, lines 19-26: the columns the model was trained on
feature_columns ==
  <<"public_access", "encryption_enabled", "versioning_enabled", "logging_enabled",
    "sensitive_naming", "has_tags">>

\* pd.DataFrame([features], columns=feature_columns): the row holds the named
\* columns only; a column the dict lacks is NaN, a key that is no column is
\* left out, and nothing is raised
DataFrame(features, columns) ==
  [c \in {columns[i] : i \in 1..Len(columns)} |->
     IF c \in DOMAIN features THEN features[c] ELSE "NaN"]

\* predict_risk, lines 29-43, for the probability[1] the model gives for X;
\* predict is the class of the larger probability, class 0 on a tie
predict_risk(features, probability) ==
  LET X      == DataFrame(features, feature_columns)
      safe   == FAdd(FromRatio(1, 1), [probability EXCEPT !.neg = TRUE])
  IN  [X |-> X,
       decision |-> IF FGt(probability, safe) THEN "RISKY" ELSE "SAFE",
       risk_score |-> probability,
       confidence |-> FMax(safe, probability)]

\* a JSON value at "llm_risk_score": a number, in range or not, or a value
\* that is no number (a string, null)
Num(x) == [num |-> TRUE, val |-> x]
NotNum == [num |-> FALSE, val |-> FZero]

(***************************************************************************)
(* LLMConfig and LLMAnalyzer.__init__                                      *)
(***************************************************************************)
\* the process environment: LLM_PROVIDER (default "openai"), whether
\* OPENAI_API_KEY is set, and whether models/random_forest_v1.pkl loads
Envs ==
  [provider : {"openai", "bedrock", "other"}, openai_key : BOOLEAN, artifact : BOOLEAN]

\* LLMConfig(): "ok", or the exception its constructor or get_config raises
LLMConfig(e) ==
  CASE e.provider = "openai"  -> IF e.openai_key THEN "ok" ELSE "ValueError"
    [] e.provider = "bedrock" -> "ok"
    [] OTHER                  -> "AttributeError"

\* LLMAnalyzer(): whether construction raised, and whether self.client is set
LLMAnalyzer(e) ==
  IF LLMConfig(e) # "ok"
  THEN [state |-> "raised", exception |-> LLMConfig(e), has_client |-> FALSE]
  ELSE [state |-> "built", exception |-> "", has_client |-> e.provider = "openai"]

\* LLMAnalyzer._create_security_prompt: the prompt embeds the configuration
\* text as given, the resource name and five of the features
_create_security_prompt(code, name, features) ==
  [code |-> code, name |-> name,
   properties |-> <<features.public_access # 0, features.encryption_enabled # 0,
                    features.versioning_enabled # 0, features.logging_enabled # 0,
                    features.sensitive_naming # 0>>]

(***************************************************************************)
(* LLMAnalyzer._parse_llm_response.  A reply text is either without a JSON *)
(* object that parses ("text"), or a JSON object, complete or lacking a    *)
(* required field.                                                         *)
(***************************************************************************)
Reply(kind, intent, score) == [kind |-> kind, intent |-> intent, score |-> score]

\* "intent" is one of the three documented values or another spelling;
\* "llm_risk_score" is on the grid n/Scale, LlmOver steps beyond [0,1] included
Replies ==
  LET IntentValues   == {"INTENTIONAL", "ACCIDENTAL", "UNCERTAIN", "intentional"}
      LlmScoreValues ==
        {Num(FromRatio(n, Scale)) : n \in (0 - LlmOver)..(Scale + LlmOver)} \cup {NotNum}
  IN  {Reply("text", "", NotNum), Reply("incomplete", "", NotNum)}
      \cup {Reply("json", i, v) : i \in IntentValues, v \in LlmScoreValues}

_parse_llm_response(reply) ==
  IF reply.kind = "json"
  THEN [intent |-> reply.intent, llm_risk_score |-> reply.score,
        reasoning |-> "reasoning of the reply", concerns |-> "concerns of the reply"]
  ELSE [intent |-> "UNCERTAIN", llm_risk_score |-> Num(FromRatio(5, 10)),
        reasoning |-> "text of the reply",
        concerns |-> "Parse error in LLM response"]

NoLlmResult ==
  [intent |-> "", llm_risk_score |-> NotNum, reasoning |-> "", concerns |-> ""]

(***************************************************************************)
(* HybridAnalyzer._fuse_scores and _make_decision                          *)
(***************************************************************************)
\* the weight table with the INTENTIONAL row holding the UNCERTAIN weights
Weights_intentional_as_other(intent) ==
  CASE intent = "ACCIDENTAL"  -> [ml |-> FromRatio(7, 10), llm |-> FromRatio(3, 10)]
    [] OTHER                  -> [ml |-> FromRatio(6, 10), llm |-> FromRatio(4, 10)]

Weights(intent) ==
  CASE intent = "INTENTIONAL" -> [ml |-> FromRatio(4, 10), llm |-> FromRatio(6, 10)]
    [] intent = "ACCIDENTAL"  -> [ml |-> FromRatio(7, 10), llm |-> FromRatio(3, 10)]
    [] OTHER                  -> [ml |-> FromRatio(6, 10), llm |-> FromRatio(4, 10)]

\* the fusion with weight_ml applied to both scores
_fuse_scores_one_weight(ml, llm, intent) ==
  FAdd(FMul(ml, Weights(intent).ml), FMul(llm, Weights(intent).ml))

_fuse_scores(ml, llm, intent) ==
  FAdd(FMul(ml, Weights(intent).ml), FMul(llm, Weights(intent).llm))

\* the decision with >= at the 0.45 threshold
_make_decision_ge(score, intent) ==
  IF FGt(score, FromRatio(75, 100)) THEN "BLOCK"
  ELSE IF ~FLt(score, FromRatio(45, 100))
       THEN (IF intent = "ACCIDENTAL" THEN "BLOCK" ELSE "WARN")
  ELSE IF FGt(score, FromRatio(25, 100)) THEN "WARN"
  ELSE "ALLOW"

\* the decision with the escalation at INTENTIONAL instead of ACCIDENTAL
_make_decision_intentional_blocks(score, intent) ==
  IF FGt(score, FromRatio(75, 100)) THEN "BLOCK"
  ELSE IF FGt(score, FromRatio(45, 100))
       THEN (IF intent = "INTENTIONAL" THEN "BLOCK" ELSE "WARN")
  ELSE IF FGt(score, FromRatio(25, 100)) THEN "WARN"
  ELSE "ALLOW"

\* the decision without the escalation of ACCIDENTAL
_make_decision_any_intent(score, intent) ==
  IF FGt(score, FromRatio(75, 100)) THEN "BLOCK"
  ELSE IF FGt(score, FromRatio(25, 100)) THEN "WARN"
  ELSE "ALLOW"

_make_decision(score, intent) ==
  IF FGt(score, FromRatio(75, 100)) THEN "BLOCK"
  ELSE IF FGt(score, FromRatio(45, 100))
       THEN (IF intent = "ACCIDENTAL" THEN "BLOCK" ELSE "WARN")
  ELSE IF FGt(score, FromRatio(25, 100)) THEN "WARN"
  ELSE "ALLOW"

\* analyze_terraform, lines 87-92: the table of the statistical-only path
overall_decision(max_risk) ==
  IF FGt(max_risk, FromRatio(7, 10)) THEN "BLOCK"
  ELSE IF FGt(max_risk, FromRatio(3, 10)) THEN "WARN"
  ELSE "ALLOW"

(***************************************************************************)
(* What a call of HybridAnalyzer.analyze ends with.  The scores of a       *)
(* result are round(x, 2), kept as their number of hundredths.             *)
(***************************************************************************)
NoOutcome == [kind |-> "none"]
ErrorResult(message) == [kind |-> "error", error |-> message]
Raised(exception) == [kind |-> "raised", exception |-> exception]
FusedResult(decision, final, ml, llm, result, features, resource) ==
  [kind |-> "result", version |-> "2.0", decision |-> decision,
   risk_score |-> Round2(final), ml_score |-> Round2(ml), llm_score |-> Round2(llm),
   intent |-> result.intent, reasoning |-> result.reasoning,
   concerns |-> result.concerns, problems |-> _list_problems(features),
   resource |-> [type |-> resource.type, name |-> resource.name]]

(***************************************************************************)
(* Text handling of the line-based reply parser (context_analyzer.py):     *)
(* str.strip, str.upper, str.startswith, str.split and float.              *)
(***************************************************************************)
\* str.strip()
Strip(s) ==
  LET IsSpace(c) == c \in {" ", "\t", "\n"}
      RECURSIVE LStrip(_)
      LStrip(t) == IF t # << >> /\ IsSpace(Head(t)) THEN LStrip(Tail(t)) ELSE t
      RECURSIVE RStrip(_)
      RStrip(t) ==
        IF t # << >> /\ IsSpace(t[Len(t)]) THEN RStrip(SubSeq(t, 1, Len(t) - 1))
        ELSE t
  IN  RStrip(LStrip(s))

\* str.upper()
UpperStr(s) ==
  [i \in 1..Len(s) |->
     IF \E k \in 1..Len(LowerOf) : LowerOf[k] = s[i]
     THEN Upper[CHOOSE k \in 1..Len(LowerOf) : LowerOf[k] = s[i]]
     ELSE s[i]]

\* s.startswith(p)
StartsWith(s, p) == Len(s) >= Len(p) /\ SubSeq(s, 1, Len(p)) = p

\* the index of the first c in s, 0 if there is none
Find(s, c) ==
  IF \E i \in 1..Len(s) : s[i] = c
  THEN CHOOSE i \in 1..Len(s) : s[i] = c /\ \A j \in 1..(i - 1) : s[j] # c
  ELSE 0

\* s.split(c)
RECURSIVE Split(_, _)
Split(s, c) ==
  LET i == Find(s, c)
  IN  IF i = 0 THEN <<s>>
      ELSE <<SubSeq(s, 1, i - 1)>> \o Split(SubSeq(s, i + 1, Len(s)), c)

\* What float(text) gives: a finite number, nan, an infinity, or ValueError.
\* The decimal grammar of Python is followed (sign, digits, point, exponent,
\* inf/infinity/nan in any case) except for underscores between digits; the
\* numerator and the power of ten in the denominator stay below Base.
FloatNum(x) == [kind |-> "num", neg |-> x.neg, val |-> x]
FloatValueError == [kind |-> "ValueError", neg |-> FALSE, val |-> FZero]

float(text) ==
  LET Digits == <<"0", "1", "2", "3", "4", "5", "6", "7", "8", "9">>
      AllDigits(t) == \A i \in 1..Len(t) : \E d \in 1..Len(Digits) : Digits[d] = t[i]
      RECURSIVE NatOf(_)
      NatOf(t) ==
        IF t = << >> THEN 0
        ELSE 10 * NatOf(SubSeq(t, 1, Len(t) - 1))
             + (CHOOSE d \in 1..Len(Digits) : Digits[d] = t[Len(t)]) - 1
      s    == Strip(text)
      sgn  == s # << >> /\ Head(s) \in {"+", "-"}
      neg  == s # << >> /\ Head(s) = "-"
      body == IF sgn THEN Tail(s) ELSE s
      low  == Lower(body)
      epos == Find(low, "e")
      mant == IF epos = 0 THEN body ELSE SubSeq(body, 1, epos - 1)
      etxt == IF epos = 0 THEN << >> ELSE SubSeq(body, epos + 1, Len(body))
      esgn == etxt # << >> /\ Head(etxt) \in {"+", "-"}
      edig == IF esgn THEN Tail(etxt) ELSE etxt
      exp  == IF epos = 0 THEN 0
              ELSE IF Head(etxt) = "-" THEN 0 - NatOf(edig) ELSE NatOf(edig)
      dot  == Find(mant, ".")
      ip   == IF dot = 0 THEN mant ELSE SubSeq(mant, 1, dot - 1)
      fp   == IF dot = 0 THEN << >> ELSE SubSeq(mant, dot + 1, Len(mant))
      n    == NatOf(ip \o fp)
      k    == exp - Len(fp)
      x    == IF k >= 0 THEN FromRatio(n * 10^k, 1) ELSE FromRatio(n, 10^(0 - k))
  IN  IF low = <<"n", "a", "n">>
      THEN [kind |-> "nan", neg |-> FALSE, val |-> FZero]
      ELSE IF low \in {<<"i", "n", "f">>, <<"i", "n", "f", "i", "n", "i", "t", "y">>}
      THEN [kind |-> "inf", neg |-> neg, val |-> FZero]
      ELSE IF epos # 0 /\ (edig = << >> \/ ~AllDigits(edig)) THEN FloatValueError
      ELSE IF ~AllDigits(ip) \/ ~AllDigits(fp) \/ Len(ip) + Len(fp) = 0
      THEN FloatValueError
      ELSE FloatNum([x EXCEPT !.neg = neg])

\* max(0.0, min(1.0, x)): min and max return their first argument unless the
\* second compares strictly below (above) it, and a nan compares false
Clamp(x) ==
  LET one == FromRatio(1, 1)
      lo  == IF x.kind = "num" THEN FLt(x.val, one)
             ELSE x.kind = "inf" /\ x.neg
      m   == IF lo THEN x ELSE FloatNum(one)
      hi  == IF m.kind = "num" THEN FGt(m.val, FZero) ELSE FALSE
  IN  IF hi THEN m.val ELSE FZero

(***************************************************************************)
(* ContextAnalyzer._parse_response (context_analyzer.py, 147-216)          *)
(***************************************************************************)
\* lines 152-159
DefaultResult(response_text) ==
  [intent         |-> "unknown",
   purpose        |-> << >>,
   llm_risk_score |-> FromRatio(5, 10),
   concerns       |-> << >>,
   reasoning      |-> response_text,
   confidence     |-> FromRatio(7, 10)]

\* one turn of the loop, lines 165-210
ParseLine(result, raw) ==
  LET line  == Strip(raw)
      up    == UpperStr(line)
      \* line.split(':', 1)[1].strip(), for a line that holds a colon
      value == Strip(SubSeq(line, Find(line, ":") + 1, Len(line)))
      num   == float(value)
      \* [c.strip() for c in concerns_text.split('|') if c.strip()]
      RECURSIVE StripAll(_)
      StripAll(parts) ==
        IF parts = << >> THEN << >>
        ELSE (IF Strip(Head(parts)) = << >> THEN << >> ELSE <<Strip(Head(parts))>>)
             \o StripAll(Tail(parts))
  IN  IF StartsWith(up, <<"I", "N", "T", "E", "N", "T", ":">>)
      THEN IF Contains(<<"i", "n", "t", "e", "n", "t", "i", "o", "n", "a", "l">>, Lower(value))
           THEN [result EXCEPT !.intent = "intentional"]
           ELSE IF Contains(<<"a", "c", "c", "i", "d", "e", "n", "t", "a", "l">>, Lower(value))
           THEN [result EXCEPT !.intent = "accidental"]
           ELSE result
      ELSE IF StartsWith(up, <<"P", "U", "R", "P", "O", "S", "E", ":">>)
      THEN [result EXCEPT !.purpose = value]
      ELSE IF StartsWith(up, <<"R", "I", "S", "K", "_", "S", "C", "O", "R", "E", ":">>)
      THEN [result EXCEPT !.llm_risk_score =
              IF num.kind = "ValueError" THEN FromRatio(5, 10) ELSE Clamp(num)]
      ELSE IF StartsWith(up, <<"C", "O", "N", "C", "E", "R", "N", "S", ":">>)
      THEN IF Lower(value) # <<"n", "o", "n", "e">>
           THEN [result EXCEPT !.concerns = StripAll(Split(value, "|"))]
           ELSE result
      ELSE IF StartsWith(up, <<"R", "E", "A", "S", "O", "N", "I", "N", "G", ":">>)
      THEN [result EXCEPT !.reasoning = value]
      ELSE IF StartsWith(up, <<"C", "O", "N", "F", "I", "D", "E", "N", "C", "E", ":">>)
      THEN [result EXCEPT !.confidence =
              IF num.kind = "ValueError" THEN FromRatio(7, 10) ELSE Clamp(num)]
      ELSE result

RECURSIVE ParseLines(_, _)
ParseLines(result, lines) ==
  IF lines = << >> THEN result
  ELSE ParseLines(ParseLine(result, Head(lines)), Tail(lines))

_parse_response(response_text) ==
  ParseLines(DefaultResult(response_text), Split(Strip(response_text), "\n"))

(***************************************************************************)
(* LLMWrapper (llm/__init__.py), the provider interface of ContextAnalyzer.*)
(* The environment says which credentials are set and whether the probe    *)
(* call of each provider succeeds once its client exists.                  *)
(***************************************************************************)

\* __init__, lines 29-32
NewWrapper == [provider |-> "None", client |-> "None", model_id |-> "None"]

\* the client and the model id are stored before the probe call is made
_try_bedrock(self, e) ==
  IF ~e.aws_key THEN [ok |-> FALSE, self |-> self]
  ELSE [ok   |-> e.bedrock_probe,
        self |-> [self EXCEPT !.client = "bedrock-runtime",
                             !.model_id = "anthropic.claude-3-sonnet-20240229-v1:0"]]

_try_openai(self, e) ==
  IF ~e.openai_key THEN [ok |-> FALSE, self |-> self]
  ELSE [ok   |-> e.openai_probe,
        self |-> [self EXCEPT !.client = "OpenAI", !.model_id = "gpt-3.5-turbo"]]

\* OpenAI first, then Bedrock
_initialize_provider_openai_first(self, e) ==
  LET o == _try_openai(self, e)
      b == _try_bedrock(o.self, e)
  IN  IF o.ok THEN [raised |-> FALSE, self |-> [o.self EXCEPT !.provider = "openai"]]
      ELSE IF b.ok
      THEN [raised |-> FALSE, self |-> [b.self EXCEPT !.provider = "bedrock"]]
      ELSE [raised |-> TRUE, self |-> b.self]

\* Bedrock first, then OpenAI, else ValueError
_initialize_provider(self, e) ==
  LET b == _try_bedrock(self, e)
      o == _try_openai(b.self, e)
  IN  IF b.ok THEN [raised |-> FALSE, self |-> [b.self EXCEPT !.provider = "bedrock"]]
      ELSE IF o.ok
      THEN [raised |-> FALSE, self |-> [o.self EXCEPT !.provider = "openai"]]
      ELSE [raised |-> TRUE, self |-> o.self]

LLMWrapper(e) == _initialize_provider(NewWrapper, e)

\* What a provider does with one generation request: it replies with a text
\* or the call raises with an error text.

\* _generate_bedrock and _generate_openai: the request goes through the
\* stored client; every exception is wrapped into one that names the provider
_generate_bedrock(self, answer) ==
  IF self.client = "bedrock-runtime" /\ answer.ok
  THEN [raised |-> FALSE, text |-> answer.text]
  ELSE [raised |-> TRUE, text |-> <<"B", "e", "d", "r", "o", "c", "k", " ", "A", "P", "I", " ", "e", "r", "r", "o", "r", ":", " ">> \o answer.text]

_generate_openai(self, answer) ==
  IF self.client = "OpenAI" /\ answer.ok
  THEN [raised |-> FALSE, text |-> answer.text]
  ELSE [raised |-> TRUE, text |-> <<"O", "p", "e", "n", "A", "I", " ", "A", "P", "I", " ", "e", "r", "r", "o", "r", ":", " ">> \o answer.text]

\* generate, lines 152-157
generate(self, answer) ==
  IF self.provider = "bedrock" THEN _generate_bedrock(self, answer)
  ELSE IF self.provider = "openai" THEN _generate_openai(self, answer)
  ELSE [raised |-> TRUE, text |-> <<"N", "o", " ", "L", "L", "M", " ", "p", "r", "o", "v", "i", "d", "e", "r", " ", "i", "n", "i", "t", "i", "a", "l", "i", "z", "e", "d">>]

(***************************************************************************)
(* ContextAnalyzer.analyze (context_analyzer.py, 30-84)                    *)
(***************************************************************************)
\* lines 77-84: what analyze returns when generate or the parser raised
FallbackResult(error) ==
  [intent         |-> "unknown",
   purpose        |-> <<"C", "o", "u", "l", "d", " ", "n", "o", "t", " ", "a", "n", "a", "l", "y", "z", "e", " ", "(", "L", "L", "M", " ", "u", "n", "a", "v", "a", "i", "l", "a", "b", "l", "e", ")">>,
   llm_risk_score |-> FromRatio(5, 10),
   concerns       |-> << <<"U", "n", "a", "b", "l", "e", " ", "t", "o", " ", "p", "e", "r", "f", "o", "r", "m", " ", "A", "I", " ", "a", "n", "a", "l", "y", "s", "i", "s">> >>,
   reasoning      |-> <<"L", "L", "M", " ", "a", "n", "a", "l", "y", "s", "i", "s", " ", "f", "a", "i", "l", "e", "d", ":", " ">> \o error,
   confidence     |-> FromRatio(3, 10)]

MaxLines == 2
\* the replies of at most MaxLines lines, as '\n'.join(lines)
ResponseTexts ==
  LET \* the lines a reply is made of
      ReplyLines ==
        { <<"I", "N", "T", "E", "N", "T", ":", " ", "i", "n", "t", "e", "n", "t", "i", "o", "n", "a", "l">>, <<"I", "n", "t", "e", "n", "t", ":", " ", "A", "c", "c", "i", "d", "e", "n", "t", "a", "l">>, <<"I", "N", "T", "E", "N", "T", ":", " ", "u", "n", "s", "u", "r", "e">>,
          <<"R", "I", "S", "K", "_", "S", "C", "O", "R", "E", ":", " ", "0", ".", "8">>, <<"r", "i", "s", "k", "_", "s", "c", "o", "r", "e", ":", " ", "1", ".", "5">>, <<"R", "I", "S", "K", "_", "S", "C", "O", "R", "E", ":", " ", "-", "0", ".", "2">>,
          <<"R", "I", "S", "K", "_", "S", "C", "O", "R", "E", ":", " ", "h", "i", "g", "h">>, <<"R", "I", "S", "K", "_", "S", "C", "O", "R", "E", ":", " ", "n", "a", "n">>,
          <<"C", "O", "N", "F", "I", "D", "E", "N", "C", "E", ":", " ", "0", ".", "9">>, <<"C", "O", "N", "F", "I", "D", "E", "N", "C", "E", ":", " ", "7">>, <<"C", "O", "N", "F", "I", "D", "E", "N", "C", "E", ":", " ", "n", "/", "a">>,
          <<"C", "O", "N", "C", "E", "R", "N", "S", ":", " ", "a", " ", "|", " ", "b">>, <<"R", "E", "A", "S", "O", "N", "I", "N", "G", ":", " ", "o", "k">>, <<"P", "U", "R", "P", "O", "S", "E", ":", " ", "c", "d", "n">>, <<"h", "e", "l", "l", "o">> }
      RECURSIVE Join(_)
      Join(lines) ==
        IF lines = << >> THEN << >>
        ELSE IF Len(lines) = 1 THEN lines[1]
        ELSE lines[1] \o <<"\n">> \o Join(Tail(lines))
  IN  {Join(ls) : ls \in UNION {[1..n -> ReplyLines] : n \in 0..MaxLines}}
Answers ==
  {[ok |-> TRUE, text |-> t] : t \in ResponseTexts}
  \cup {[ok |-> FALSE, text |-> t] : t \in { <<"t", "i", "m", "e", "o", "u", "t">>, <<"4", "0", "1">> }}

(***************************************************************************)
(* State: the process environment, the HybridAnalyzer instance, and the    *)
(* one call of analyze in progress with its local variables; then the same *)
(* for a ContextAnalyzer.                                                  *)
(***************************************************************************)
VARIABLES
  env,             \* the process environment
  analyzer,        \* the HybridAnalyzer: unbuilt, built, or its constructor raised
  pc,              \* where the call of analyze stands
  terraform_code,  \* the argument of the call
  temp_file,       \* the content of /tmp/analysis.tf
  resource,        \* parsed['resources'][0]
  features,
  ml_score,
  llm_result,
  final_score,
  requests,        \* generation requests sent to the provider during the call
  provider_failed, \* whether the provider raised during the call
  outcome,         \* what the last call returned or raised
  X,               \* the row predict_risk gave to the model during the call
  prompt,          \* the prompt analyze_intent made during the call
  wrapper_env,     \* the credentials and providers an LLMWrapper finds
  context,         \* the ContextAnalyzer and its LLMWrapper
  context_pc,      \* where the call of ContextAnalyzer.analyze stands
  response,        \* what generate returned or raised
  context_result,  \* what the last call of ContextAnalyzer.analyze returned
  context_requests, \* generation requests sent during the call
  extract_pc,      \* whether extract_security_features has been called
  extract_input,   \* the resource it is called with
  extract_result,  \* the feature vector it returned, or that it raised
  terraform_pc,    \* where the call of analyze_terraform stands
  terraform_args,  \* its arguments file_path and terraform_code
  terraform_parsed, \* parsed['resources']
  results,         \* the per-resource results appended so far
  terraform_outcome, \* what the last call of analyze_terraform returned or raised
  batch_pc,        \* where the handler analyze_batch stands
  batch_data,      \* request.json
  batch_results,   \* the handler's list `results`
  batch_response,  \* the response of the handler: status and body
  calls,           \* the calls of the analysis entry points that run together
  temp_files,      \* the content of the temporary file of each entry point
  now,             \* datetime.now(), in hours
  cache_file,      \* the content of cache/llm_cache.json
  llm_cache,       \* the SimpleCache instance: whether it is built, and self.cache
  threads,         \* the calls of get, set and clear under way, one per thread
  last_set         \* for each key, the last set or clear that was made

hybridVars ==
  <<env, analyzer, pc, terraform_code, temp_file, resource, features, ml_score,
    llm_result, final_score, requests, provider_failed, outcome, X, prompt>>

contextVars ==
  <<wrapper_env, context, context_pc, response, context_result, context_requests>>

extractVars == <<extract_pc, extract_input, extract_result>>

terraformVars ==
  <<terraform_pc, terraform_args, terraform_parsed, results, terraform_outcome>>

batchVars == <<batch_pc, batch_data, batch_results, batch_response>>

concurrentVars == <<calls, temp_files>>

cacheVars == <<now, cache_file, llm_cache, threads, last_set>>

vars ==
  <<hybridVars, contextVars, extractVars, terraformVars, batchVars,
    concurrentVars, cacheVars>>

\* what the actions of one component leave alone
otherThanHybrid ==
  <<contextVars, extractVars, terraformVars, batchVars, concurrentVars,
    cacheVars>>
otherThanContext ==
  <<hybridVars, extractVars, terraformVars, batchVars, concurrentVars,
    cacheVars>>
otherThanExtract ==
  <<hybridVars, contextVars, terraformVars, batchVars, concurrentVars,
    cacheVars>>
otherThanTerraform ==
  <<hybridVars, contextVars, extractVars, batchVars, concurrentVars,
    cacheVars>>
otherThanBatch ==
  <<hybridVars, contextVars, extractVars, terraformVars, concurrentVars,
    cacheVars>>
otherThanConcurrent ==
  <<hybridVars, contextVars, extractVars, terraformVars, batchVars,
    cacheVars>>
otherThanCache ==
  <<hybridVars, contextVars, extractVars, terraformVars, batchVars,
    concurrentVars>>

NoText == Text("none", << >>)
NoResource == [type |-> "", name |-> "", properties |-> ResSsh.properties]


HybridIdle ==
  /\ analyzer = [state |-> "unbuilt", exception |-> "", has_client |-> FALSE]
  /\ pc = "idle"
  /\ terraform_code = NoText
  /\ temp_file = NoText
  /\ resource = NoResource
  /\ features = NoFeatures
  /\ ml_score = FZero
  /\ llm_result = NoLlmResult
  /\ final_score = FZero
  /\ requests = 0
  /\ provider_failed = FALSE
  /\ outcome = NoOutcome
  /\ X = DataFrame(NoFeatures, << >>)
  /\ prompt = _create_security_prompt(NoText, "", NoFeatures)

ContextIdle ==
  /\ context = [state |-> "unbuilt", llm |-> NewWrapper]
  /\ context_pc = "idle"
  /\ response = [raised |-> FALSE, text |-> << >>]
  /\ context_result = DefaultResult(<< >>)
  /\ context_requests = 0

ExtractIdle ==
  /\ extract_pc = "ready"
  /\ extract_result = [raised |-> FALSE, features |-> NoFeatures]

\* analyze_terraform(file_path=None, terraform_code=None): the defaults
NoArgs == [file_path |-> NoText, terraform_code |-> NoText]

TerraformIdle ==
  /\ terraform_pc = "idle"
  /\ terraform_args = NoArgs
  /\ terraform_parsed = << >>
  /\ results = << >>
  /\ terraform_outcome = NoOutcome

\* request.json of a request without a JSON body
NoData == [kind |-> "none", has_configurations |-> FALSE, configurations |-> << >>]

BatchIdle ==
  /\ batch_pc = "idle"
  /\ batch_data = NoData
  /\ batch_results = << >>
  /\ batch_response = [status |-> 0, error |-> "", summary |-> << >>, results |-> << >>]

\* the requests the threaded server handles at the same time
MaxCallers == 2

\* no call under way, and neither temporary file on disk
ConcurrentIdle ==
  /\ calls = [c \in 1..MaxCallers |->
               [pc |-> "idle", entry |-> "", terraform_code |-> NoText,
                handle |-> FALSE,
                parsed |-> [status |-> "none", resources |-> << >>]]]
  /\ temp_files = [e \in {"analyze", "analyze_terraform"} |-> NoText]

\* the raw queries the cache is keyed by
Queries == {"q1", "q2"}

\* md5(str(key)).hexdigest(): a digest, different for different queries
_hash_key(key) == <<"md5", key>>

\* self.cache is a dict from digests to entries; a digest that is not in
\* the dict has no entry
NoEntry == [has |-> FALSE, value |-> "None", created |-> 0]

\* a thread that is in no call
IdleThread ==
  [pc |-> "idle", op |-> "", key |-> "", snap |-> [h \in {_hash_key(q) : q \in Queries} |-> NoEntry],
   rebound |-> FALSE, ret |-> "None", raised |-> ""]

\* no cache in the process, and no cache file on disk
CacheIdle ==
  /\ now = 0
  /\ cache_file = [kind |-> "absent", data |-> IdleThread.snap]
  /\ llm_cache = [built |-> FALSE, cache |-> IdleThread.snap]
  /\ threads = << >>
  /\ last_set = [h \in DOMAIN IdleThread.snap |->
                   [state |-> "never", value |-> "None", at |-> 0]]

\* a process that builds a HybridAnalyzer
Init ==
  /\ env \in Envs
  /\ HybridIdle
  /\ wrapper_env = [aws_key |-> FALSE, bedrock_probe |-> FALSE,
                    openai_key |-> env.openai_key, openai_probe |-> env.openai_key]
  /\ ContextIdle
  /\ extract_input = ResSsh
  /\ ExtractIdle
  /\ TerraformIdle
  /\ BatchIdle
  /\ ConcurrentIdle
  /\ CacheIdle

\* a process that builds a ContextAnalyzer
InitContext ==
  /\ wrapper_env \in [aws_key : BOOLEAN, bedrock_probe : BOOLEAN,
                      openai_key : BOOLEAN, openai_probe : BOOLEAN]
  /\ ContextIdle
  /\ env = [provider |-> "openai", openai_key |-> wrapper_env.openai_key,
            artifact |-> TRUE]
  /\ HybridIdle
  /\ extract_input = ResSsh
  /\ ExtractIdle
  /\ TerraformIdle
  /\ BatchIdle
  /\ ConcurrentIdle
  /\ CacheIdle

\* HybridAnalyzer.__init__
Construct ==
  /\ analyzer.state = "unbuilt"
  /\ analyzer' = LLMAnalyzer(env)
  /\ UNCHANGED <<otherThanHybrid, env, pc, terraform_code, temp_file, resource,
                 features, ml_score, llm_result, final_score, requests,
                 provider_failed, outcome, X, prompt>>

\* analyze, lines 24-27: the text is written to the temporary file
AnalyzeWrite ==
  /\ analyzer.state = "built"
  /\ pc = "idle"
  /\ \E text \in Texts :
       /\ terraform_code' = text
       /\ temp_file' = text
  /\ pc' = "written"
  /\ resource' = NoResource
  /\ features' = NoFeatures
  /\ ml_score' = FZero
  /\ llm_result' = NoLlmResult
  /\ final_score' = FZero
  /\ requests' = 0
  /\ provider_failed' = FALSE
  /\ outcome' = NoOutcome
  /\ X' = DataFrame(NoFeatures, << >>)
  /\ prompt' = _create_security_prompt(NoText, "", NoFeatures)
  /\ UNCHANGED <<otherThanHybrid, env, analyzer>>

\* analyze, lines 29-34: the file is parsed, the first resource taken and
\* its features extracted.  Nothing in analyze catches an exception of the
\* parser or of the extractor.
AnalyzeParse ==
  /\ pc = "written"
  /\ LET parsed == parse_terraform_file(temp_file)
     IN  IF parsed.status = "raised"
         THEN /\ outcome' = Raised("parse error")
              /\ pc' = "done"
              /\ UNCHANGED <<resource, features>>
         ELSE IF parsed.status = "none" \/ parsed.resources = << >>
         THEN /\ outcome' = ErrorResult("No resources found")
              /\ pc' = "done"
              /\ UNCHANGED <<resource, features>>
         ELSE LET extracted ==
                    extract_security_features(first_resource(parsed.resources))
              IN  /\ resource' = first_resource(parsed.resources)
                  /\ IF extracted.raised
                     THEN /\ outcome' = Raised("AttributeError: get")
                          /\ pc' = "done"
                          /\ UNCHANGED features
                     ELSE /\ features' = extracted.features
                          /\ pc' = "extracted"
                          /\ UNCHANGED outcome
  /\ UNCHANGED <<otherThanHybrid, env, analyzer, terraform_code, temp_file,
                 ml_score, llm_result, final_score, requests, provider_failed,
                 X, prompt>>

\* analyze, lines 36-38: predict_risk loads the model artifact and scores
AnalyzePredict ==
  /\ pc = "extracted"
  /\ IF ~env.artifact
     THEN /\ outcome' = Raised("FileNotFoundError")
          /\ pc' = "done"
          /\ UNCHANGED <<ml_score, X>>
     ELSE /\ \E probability \in MlScores :
               LET ml_result == predict_risk(features, probability)
               IN  /\ X' = ml_result.X
                   /\ ml_score' = ml_result.risk_score
          /\ pc' = "scored"
          /\ UNCHANGED outcome
  /\ UNCHANGED <<otherThanHybrid, env, analyzer, terraform_code, temp_file, resource,
                 features, llm_result, final_score, requests, provider_failed,
                 prompt>>

\* analyze, lines 40-46: LLMAnalyzer.analyze_intent sends one request; the
\* provider raises or replies, and the reply is parsed.  Nothing catches an
\* exception here.
AnalyzeIntent ==
  /\ pc = "scored"
  /\ prompt' = _create_security_prompt(terraform_code, resource.name, features)
  /\ IF ~analyzer.has_client
     THEN /\ outcome' = Raised("AttributeError: client")
          /\ pc' = "done"
          /\ UNCHANGED <<llm_result, requests, provider_failed>>
     ELSE /\ requests' = requests + 1
          /\ \/ /\ provider_failed' = TRUE
                /\ outcome' = Raised("provider error")
                /\ pc' = "done"
                /\ UNCHANGED llm_result
             \/ /\ \E reply \in Replies : llm_result' = _parse_llm_response(reply)
                /\ pc' = "analyzed"
                /\ UNCHANGED <<provider_failed, outcome>>
  /\ UNCHANGED <<otherThanHybrid, env, analyzer, terraform_code, temp_file, resource,
                 features, ml_score, final_score, X>>

\* analyze, lines 46-49: the scores are fused; a llm_risk_score that is no
\* number cannot be multiplied (TypeError)
AnalyzeFuse ==
  /\ pc = "analyzed"
  /\ IF ~llm_result.llm_risk_score.num
     THEN /\ outcome' = Raised("TypeError")
          /\ pc' = "done"
          /\ UNCHANGED final_score
     ELSE /\ final_score' =
               _fuse_scores(ml_score, llm_result.llm_risk_score.val, llm_result.intent)
          /\ pc' = "fused"
          /\ UNCHANGED outcome
  /\ UNCHANGED <<otherThanHybrid, env, analyzer, terraform_code, temp_file, resource,
                 features, ml_score, llm_result, requests, provider_failed, X,
                 prompt>>

\* analyze, lines 50-66: the decision is made and the result returned
AnalyzeReturn ==
  /\ pc = "fused"
  /\ outcome' = FusedResult(_make_decision(final_score, llm_result.intent),
                            final_score, ml_score, llm_result.llm_risk_score.val,
                            llm_result, features, resource)
  /\ pc' = "done"
  /\ UNCHANGED <<otherThanHybrid, env, analyzer, terraform_code, temp_file, resource,
                 features, ml_score, llm_result, final_score, requests,
                 provider_failed, X, prompt>>

\* the caller has the outcome; the analyzer is ready for the next call
Finish ==
  /\ pc = "done"
  /\ pc' = "idle"
  /\ UNCHANGED <<otherThanHybrid, env, analyzer, terraform_code, temp_file, resource,
                 features, ml_score, llm_result, final_score, requests,
                 provider_failed, outcome, X, prompt>>

Next ==
  \/ Construct
  \/ AnalyzeWrite
  \/ AnalyzeParse
  \/ AnalyzePredict
  \/ AnalyzeIntent
  \/ AnalyzeFuse
  \/ AnalyzeReturn
  \/ Finish

Spec == Init /\ [][Next]_vars

(***************************************************************************)
(* The ContextAnalyzer on its own: construction, then calls of analyze,    *)
(* each one request to the provider followed by the parse of the reply or  *)
(* by the fallback.                                                        *)
(***************************************************************************)
\* ContextAnalyzer.__init__, line 27: the LLMWrapper is built
ContextConstruct ==
  /\ context.state = "unbuilt"
  /\ LET w == LLMWrapper(wrapper_env)
     IN  context' = [state |-> IF w.raised THEN "raised" ELSE "built",
                     llm   |-> w.self]
  /\ UNCHANGED <<wrapper_env, context_pc, response, context_result,
                 context_requests, otherThanContext>>

\* analyze, lines 54-62: the prompt is made and generate is called
ContextGenerate ==
  /\ context.state = "built"
  /\ context_pc = "idle"
  /\ \E answer \in Answers : response' = generate(context.llm, answer)
  /\ context_requests' = context_requests + 1
  /\ UNCHANGED context_result
  /\ context_pc' = "generated"
  /\ UNCHANGED <<wrapper_env, context, otherThanContext>>

\* analyze, lines 68-84: the reply is parsed and returned, or the exception
\* is caught and the fallback returned
ContextReturn ==
  /\ context_pc = "generated"
  /\ context_result' = IF response.raised THEN FallbackResult(response.text)
                       ELSE _parse_response(response.text)
  /\ context_pc' = "returned"
  /\ UNCHANGED <<wrapper_env, context, response, context_requests, otherThanContext>>

\* the caller has taken the assessment; the locals of the call are gone and
\* the analyzer is ready for the next call
ContextFinish ==
  /\ context_pc = "returned"
  /\ context_pc' = "idle"
  /\ response' = [raised |-> FALSE, text |-> << >>]
  /\ context_result' = DefaultResult(<< >>)
  /\ context_requests' = 0
  /\ UNCHANGED <<wrapper_env, context, otherThanContext>>

NextContext ==
  \/ ContextConstruct
  \/ ContextGenerate
  \/ ContextReturn
  \/ ContextFinish

SpecContext == InitContext /\ [][NextContext]_vars

(***************************************************************************)
(* extract_security_features on its own: one call on any resource.         *)
(***************************************************************************)
InitExtract ==
  /\ extract_input \in Resources
  /\ ExtractIdle
  /\ env = [provider |-> "openai", openai_key |-> TRUE, artifact |-> TRUE]
  /\ HybridIdle
  /\ wrapper_env = [aws_key |-> FALSE, bedrock_probe |-> FALSE,
                    openai_key |-> TRUE, openai_probe |-> TRUE]
  /\ ContextIdle
  /\ TerraformIdle
  /\ BatchIdle
  /\ ConcurrentIdle
  /\ CacheIdle

ExtractCall ==
  /\ extract_pc = "ready"
  /\ extract_result' = extract_security_features(extract_input)
  /\ extract_pc' = "returned"
  /\ UNCHANGED <<extract_input, otherThanExtract>>

SpecExtract == InitExtract /\ [][ExtractCall]_vars

(***************************************************************************)
(* analyze_terraform (api/analyzer.py): the statistical-only analysis of   *)
(* every resource of a text.  An argument is None (NoText) or a text;      *)
(* file_path stands for the content of the file it names.  The temporary   *)
(* file temp_terraform.tf is written, parsed and removed within the call.  *)
(***************************************************************************)

\* `if file_path:` / `elif terraform_code:`: None and "" are falsy
Given(text) == text.kind \notin {"none", "empty"}

\* analyze_terraform, lines 70-80: the result of one resource; explanation
\* and suggestions are texts made from the same features and are left out
ResourceResult(res, feats, prediction) ==
  [resource_type |-> res.type, resource_name |-> res.name,
   decision |-> prediction.decision,
   risk_score |-> Round2(prediction.risk_score),
   confidence |-> Round2(prediction.confidence),
   problems |-> identify_problems(feats),
   features |-> feats]

\* the smallest score instead of the largest
min_risk(rs) ==
  LET scores == {rs[i].risk_score : i \in 1..Len(rs)}
  IN  CHOOSE m \in scores : \A x \in scores : m <= x

\* analyze_terraform, line 85: max([r['risk_score'] for r in results])
max_risk(rs) ==
  LET scores == {rs[i].risk_score : i \in 1..Len(rs)}
  IN  CHOOSE m \in scores : \A x \in scores : x <= m

\* analyze_terraform, lines 85-99
OverallResult(rs) ==
  LET m == FromRatio(max_risk(rs), 100)
  IN  [kind |-> "result", overall_decision |-> overall_decision(m),
       overall_risk_score |-> Round2(m), total_resources |-> Len(rs),
       resources |-> rs]

InitTerraform ==
  /\ env \in {e \in Envs : e.provider = "openai" /\ e.openai_key}
  /\ TerraformIdle
  /\ HybridIdle
  /\ wrapper_env = [aws_key |-> FALSE, bedrock_probe |-> FALSE,
                    openai_key |-> TRUE, openai_probe |-> TRUE]
  /\ ContextIdle
  /\ extract_input = ResSsh
  /\ ExtractIdle
  /\ BatchIdle
  /\ ConcurrentIdle
  /\ CacheIdle

\* analyze_terraform, lines 30-52: the text is parsed
TerraformCall ==
  /\ terraform_pc = "idle"
  /\ \E args \in [file_path : { NoText, Text("invalid", << >>),
                                 Text("hcl", <<ResMarketingSite, ResCustomerDb>>) },
                   terraform_code : Texts \cup {NoText}] :
       /\ terraform_args' = args
       /\ IF ~Given(args.file_path) /\ ~Given(args.terraform_code)
          THEN /\ terraform_outcome' = ErrorResult("No input provided")
               /\ terraform_parsed' = << >>
               /\ terraform_pc' = "returned"
          ELSE LET parsed == parse_terraform_file(
                               IF Given(args.file_path) THEN args.file_path
                               ELSE args.terraform_code)
               IN  IF parsed.status = "none" \/ parsed.resources = << >>
                   THEN /\ terraform_outcome' =
                             ErrorResult("No resources found in Terraform code")
                        /\ terraform_parsed' = << >>
                        /\ terraform_pc' = "returned"
                   ELSE /\ terraform_outcome' = NoOutcome
                        /\ terraform_parsed' = parsed.resources
                        /\ terraform_pc' = "looping"
  /\ results' = << >>
  /\ UNCHANGED <<otherThanTerraform>>

\* analyze_terraform, lines 57-82: one turn of the loop.  Nothing catches
\* what the extractor or predict_risk raises.
TerraformResource ==
  /\ terraform_pc = "looping"
  /\ Len(results) < Len(terraform_parsed)
  /\ LET res       == terraform_parsed[Len(results) + 1]
         extracted == extract_security_features(res)
     IN  IF extracted.raised
         THEN /\ terraform_outcome' = Raised("AttributeError")
              /\ terraform_pc' = "returned"
              /\ UNCHANGED results
         ELSE IF ~env.artifact
         THEN /\ terraform_outcome' = Raised("FileNotFoundError")
              /\ terraform_pc' = "returned"
              /\ UNCHANGED results
         ELSE /\ \E probability \in MlScores :
                   results' = Append(results,
                                ResourceResult(res, extracted.features,
                                  predict_risk(extracted.features, probability)))
              /\ UNCHANGED <<terraform_pc, terraform_outcome>>
  /\ UNCHANGED <<otherThanTerraform, terraform_args, terraform_parsed>>

\* analyze_terraform, lines 85-99
TerraformReturn ==
  /\ terraform_pc = "looping"
  /\ Len(results) = Len(terraform_parsed)
  /\ terraform_outcome' = OverallResult(results)
  /\ terraform_pc' = "returned"
  /\ UNCHANGED <<otherThanTerraform, terraform_args, terraform_parsed, results>>

\* the caller takes the outcome; the next call starts afresh
TerraformFinish ==
  /\ terraform_pc = "returned"
  /\ terraform_pc' = "idle"
  /\ terraform_args' = NoArgs
  /\ terraform_parsed' = << >>
  /\ results' = << >>
  /\ terraform_outcome' = NoOutcome
  /\ UNCHANGED <<otherThanTerraform>>

NextTerraform ==
  \/ TerraformCall
  \/ TerraformResource
  \/ TerraformReturn
  \/ TerraformFinish

SpecTerraform == InitTerraform /\ [][NextTerraform]_vars

(***************************************************************************)
(* analyze_batch (api/app.py), the handler of POST /api/analyze-batch, for *)
(* the module-level HybridAnalyzer.  The file holds unresolved merge       *)
(* markers whose two sides are both empty; the handler is modelled as it   *)
(* reads with the markers taken out.  A response is a status and a body.   *)
(***************************************************************************)
MaxBatch == 2

\* the attributes of class HybridAnalyzer that are methods
HybridAnalyzerMethods ==
  {"__init__", "analyze", "_fuse_scores", "_make_decision", "_list_problems"}

Response(status, error, summary, rs) ==
  [status |-> status, error |-> error, summary |-> summary, results |-> rs]

InitBatch ==
  /\ BatchIdle
  /\ env = [provider |-> "openai", openai_key |-> TRUE, artifact |-> TRUE]
  /\ HybridIdle
  /\ wrapper_env = [aws_key |-> FALSE, bedrock_probe |-> FALSE,
                    openai_key |-> TRUE, openai_probe |-> TRUE]
  /\ ContextIdle
  /\ extract_input = ResSsh
  /\ ExtractIdle
  /\ TerraformIdle
  /\ ConcurrentIdle
  /\ CacheIdle

\* analyze_batch, lines 124-131: the body is read and validated
BatchCall ==
  /\ batch_pc = "idle"
  /\ \E data \in
       \* a request body: none, an object without 'configurations', or an
       \* object with a list of configurations, each a code and an optional id
       LET Configs == [id : {None, Some(<<"a">>)}, code : Texts]
           Lists   == UNION {[1..n -> Configs] : n \in 0..MaxBatch}
       IN  {NoData, [NoData EXCEPT !.kind = "object"]}
           \cup {[kind |-> "object", has_configurations |-> TRUE,
                  configurations |-> l] : l \in Lists} :
       /\ batch_data' = data
       /\ IF data.kind = "none" \/ ~data.has_configurations
          THEN /\ batch_response' = Response(400, "Missing configurations array",
                                             << >>, << >>)
               /\ batch_pc' = "returned"
          ELSE /\ batch_response' = Response(0, "", << >>, << >>)
               /\ batch_pc' = "looping"
  /\ batch_results' = << >>
  /\ UNCHANGED <<otherThanBatch>>

\* analyze_batch, lines 132-135 and 150-151: one turn of the loop.  The
\* callee hybrid_analyzer.analyze_complete is looked up before its argument
\* is evaluated; HybridAnalyzer has no such method, the lookup raises
\* AttributeError, and the one try of the handler, which encloses the whole
\* loop, answers with the error.
BatchAnalyze ==
  /\ batch_pc = "looping"
  /\ Len(batch_results) < Len(batch_data.configurations)
  /\ "analyze_complete" \notin HybridAnalyzerMethods
  /\ batch_response' = Response(500, "AttributeError", << >>, << >>)
  /\ batch_pc' = "returned"
  /\ UNCHANGED <<otherThanBatch, batch_data, batch_results>>

\* analyze_batch, lines 138-148
BatchReturn ==
  /\ batch_pc = "looping"
  /\ Len(batch_results) = Len(batch_data.configurations)
  /\ LET \* lines 138-143
         count(d) == Cardinality({i \in 1..Len(batch_results) :
                                    batch_results[i].overall_decision = d})
         summary == [total |-> Len(batch_results), blocked |-> count("BLOCK"),
                     warnings |-> count("WARN"), allowed |-> count("ALLOW")]
     IN  batch_response' = Response(200, "", summary, batch_results)
  /\ batch_pc' = "returned"
  /\ UNCHANGED <<otherThanBatch, batch_data, batch_results>>

\* the response is sent; the next request starts afresh
BatchFinish ==
  /\ batch_pc = "returned"
  /\ batch_pc' = "idle"
  /\ batch_data' = NoData
  /\ batch_results' = << >>
  /\ batch_response' = Response(0, "", << >>, << >>)
  /\ UNCHANGED <<otherThanBatch>>

NextBatch ==
  \/ BatchCall
  \/ BatchAnalyze
  \/ BatchReturn
  \/ BatchFinish

SpecBatch == InitBatch /\ [][NextBatch]_vars

(***************************************************************************)
(* The claims                                                              *)
(***************************************************************************)
InUnit(x) == FLe(FZero, x) /\ FLe(x, FromRatio(1, 1))
MinInt(a, b) == IF a < b THEN a ELSE b
MaxInt(a, b) == IF a > b THEN a ELSE b

\* C1: for ml_score and llm_score in [0,1] and every intent the fused score
\* lies within [min(ml_score, llm_score), max(ml_score, llm_score)], and in
\* every result the reported risk_score lies between the reported ml_score
\* and llm_score.
C1_FusedScoreBetweenScores ==
  /\ (pc = "fused" /\ InUnit(llm_result.llm_risk_score.val))
       => /\ FLe(FMin(ml_score, llm_result.llm_risk_score.val), final_score)
          /\ FLe(final_score, FMax(ml_score, llm_result.llm_risk_score.val))
  /\ outcome.kind = "result"
       => /\ MinInt(outcome.ml_score, outcome.llm_score) <= outcome.risk_score
          /\ outcome.risk_score <= MaxInt(outcome.ml_score, outcome.llm_score)

\* C2: the decision made from (final_score, intent) is BLOCK above 0.75; in
\* (0.45, 0.75] BLOCK for ACCIDENTAL and WARN otherwise; WARN in (0.25, 0.45];
\* ALLOW up to 0.25.  Every comparison is strict, so 0.75, 0.45 and 0.25
\* themselves fall in the lower band.
C2_DecisionTable ==
  (pc = "done" /\ outcome.kind = "result") =>
    LET score  == final_score
        intent == llm_result.intent
        above(n) == FCmp(score, FromRatio(n, 100)) = 1
    IN  /\ above(75) => outcome.decision = "BLOCK"
        /\ (above(45) /\ ~above(75) /\ intent = "ACCIDENTAL") => outcome.decision = "BLOCK"
        /\ (above(45) /\ ~above(75) /\ intent # "ACCIDENTAL") => outcome.decision = "WARN"
        /\ (above(25) /\ ~above(45)) => outcome.decision = "WARN"
        /\ ~above(25) => outcome.decision = "ALLOW"

\* a final score of exactly 0.45 under ACCIDENTAL is WARN
C2_Witness ==
  /\ pc = "done" /\ outcome.kind = "result"
  /\ final_score = FromRatio(45, 100)
  /\ llm_result.intent = "ACCIDENTAL"
  /\ outcome.decision = "WARN"

\* C3: final_score = ml_score * weight_ml + llm_score * weight_llm with the
\* weights (0.4, 0.6) for INTENTIONAL, (0.7, 0.3) for ACCIDENTAL and
\* (0.6, 0.4) for every other intent; the weights are non-negative and sum
\* to 1.
C3_FusionFormula ==
  pc = "fused" =>
    LET intent == llm_result.intent
        w_ml   == IF intent = "INTENTIONAL" THEN 4 ELSE IF intent = "ACCIDENTAL" THEN 7 ELSE 6
        w_llm  == IF intent = "INTENTIONAL" THEN 6 ELSE IF intent = "ACCIDENTAL" THEN 3 ELSE 4
    IN  /\ final_score = FAdd(FMul(ml_score, FromRatio(w_ml, 10)),
                              FMul(llm_result.llm_risk_score.val, FromRatio(w_llm, 10)))
        /\ Weights(intent) = [ml |-> FromRatio(w_ml, 10), llm |-> FromRatio(w_llm, 10)]
        /\ FLe(FZero, Weights(intent).ml) /\ FLe(FZero, Weights(intent).llm)
        /\ FAdd(Weights(intent).ml, Weights(intent).llm) = FromRatio(1, 1)

\* an intent outside the three documented values, fused with the weights
\* (0.6, 0.4): 1.0 and 0.5 give 0.8
C3_Witness ==
  /\ pc = "fused"
  /\ llm_result.intent = "intentional"
  /\ ml_score = FromRatio(1, 1)
  /\ llm_result.llm_risk_score.val = FromRatio(5, 10)
  /\ final_score = FromRatio(8, 10)

\* C4: with intent INTENTIONAL and llm_risk_score <= 0.25 the decision is
\* never BLOCK, whatever the statistical score; 0.6 with 0.25 gives the
\* final score 0.39 and WARN.
C4_IntentionalLowRiskNotBlocked ==
  (pc = "done" /\ outcome.kind = "result" /\ llm_result.intent = "INTENTIONAL"
     /\ FLe(llm_result.llm_risk_score.val, FromRatio(25, 100))) =>
    /\ outcome.decision # "BLOCK"
    /\ (ml_score = FromRatio(6, 10) /\ llm_result.llm_risk_score.val = FromRatio(25, 100))
         => /\ final_score = FromRatio(39, 100)
            /\ outcome.risk_score = 39
            /\ outcome.decision = "WARN"

\* scenario C: 0.6 and 0.25 under INTENTIONAL
C4_Witness ==
  /\ pc = "done" /\ outcome.kind = "result"
  /\ llm_result.intent = "INTENTIONAL"
  /\ ml_score = FromRatio(6, 10)
  /\ llm_result.llm_risk_score.val = FromRatio(25, 100)
  /\ outcome.decision = "WARN"

\* C5: when the call to the provider fails, the intent analyzer does not
\* raise and returns the fallback assessment: intent UNCERTAIN,
\* llm_risk_score 0.5, the concern "Unable to perform AI analysis" and a
\* reasoning that carries the error text.
C5_ProviderFailureGivesFallback ==
  provider_failed =>
    /\ outcome.kind # "raised"
    /\ llm_result.intent = "UNCERTAIN"
    /\ llm_result.llm_risk_score = Num(FromRatio(5, 10))
    /\ llm_result.concerns = "Unable to perform AI analysis"
    /\ llm_result.reasoning = "LLM analysis failed"

\* C6: when the provider raises, analyze still returns a fused result whose
\* reasoning holds the error indicator.
C6_AnalyzeSurvivesProviderFailure ==
  (pc = "done" /\ provider_failed) =>
    /\ outcome.kind = "result"
    /\ outcome.reasoning = "LLM analysis failed"

\* C7: when the provider fails, the decision is the statistical-only one:
\* the single-threshold table applied to the statistical risk score.
C7_StatisticalDecisionOnFailure ==
  (pc = "done" /\ provider_failed) =>
    /\ outcome.kind = "result"
    /\ outcome.decision = overall_decision(ml_score)

C9_StartsWithoutProvider ==
  ~env.openai_key =>
    /\ analyzer.state # "raised"
    /\ pc = "done" => outcome # Raised("AttributeError: client")

\* C10: every assessment made from model output has llm_risk_score in [0,1]
\* (and confidence in [0,1]; the assessments of LLMAnalyzer hold none).
C10_ScoreInUnitInterval ==
  pc = "analyzed" =>
    /\ llm_result.llm_risk_score.num
    /\ InUnit(llm_result.llm_risk_score.val)

\* C11: the intent of every assessment handed to the fusion, and of every
\* fused result, is one of INTENTIONAL, ACCIDENTAL, UNCERTAIN.
C11_IntentIsOneOfThree ==
  /\ pc \in {"analyzed", "fused"}
       => llm_result.intent \in {"INTENTIONAL", "ACCIDENTAL", "UNCERTAIN"}
  /\ (pc = "done" /\ outcome.kind = "result")
       => outcome.intent \in {"INTENTIONAL", "ACCIDENTAL", "UNCERTAIN"}

\* C12: every fused result has a decision in {BLOCK, WARN, ALLOW} and a
\* risk_score in [0,1] (0 to 100 hundredths).
C12_FusedResultInRange ==
  outcome.kind = "result" =>
    /\ outcome.decision \in {"BLOCK", "WARN", "ALLOW"}
    /\ 0 <= outcome.risk_score /\ outcome.risk_score <= 100

FeatureKeys ==
  {"public_access", "encryption_enabled", "versioning_enabled", "logging_enabled",
   "sensitive_naming", "has_tags", "mfa_delete_enabled", "has_lifecycle_policy",
   "risky_cors", "tag_quality"}

\* C13: the feature vector the extractor returns holds every feature key;
\* each boolean feature is 0 or 1 and tag_quality is in [0,1], 0.0 without
\* tags; a feature whose configuration key is absent is 0.
C13_FeatureVectorComplete ==
  (extract_pc = "returned" /\ ~extract_result.raised) =>
    LET f == extract_result.features
        p == extract_input.properties
    IN  /\ DOMAIN f = FeatureKeys
        /\ \A k \in FeatureKeys \ {"tag_quality"} : f[k] \in {0, 1}
        /\ InUnit(f.tag_quality)
        /\ p.tags = {} => (f.tag_quality = FZero /\ f.has_tags = 0)
        /\ ~p.acl.has => f.public_access = 0
        /\ p.sse.shape = Absent => f.encryption_enabled = 0
        /\ p.versioning.shape = Absent
             => (f.versioning_enabled = 0 /\ f.mfa_delete_enabled = 0)
        /\ p.logging.shape = Absent => f.logging_enabled = 0
        /\ ~p.bucket.has => f.sensitive_naming = 0
        /\ p.lifecycle_rule = 0 => f.has_lifecycle_policy = 0
        /\ p.cors_rule.shape = Absent => f.risky_cors = 0

\* a resource with all three required tags and nothing else: tag_quality 1.0
C13_Witness ==
  /\ extract_pc = "returned" /\ ~extract_result.raised
  /\ extract_input.properties =
       Props(None, NoBlock, NoBlock, NoBlock, None,
             {"Environment", "Owner", "Purpose"}, 0, NoCors)
  /\ extract_result.features.tag_quality = FromRatio(1, 1)
  /\ extract_result.features.has_tags = 1
  /\ extract_result.features.public_access = 0

\* C14: the extractor never raises on the shape of versioning or logging:
\* a sequence is reduced to its first mapping (an empty sequence to the
\* empty mapping); versioning_enabled is 1 iff that mapping's enabled is
\* truthy and logging_enabled is 1 iff that mapping is non-empty.
C14_AnyShapeIsReduced ==
  extract_pc = "returned" =>
    LET f == extract_result.features
        p == extract_input.properties
        holds(block) ==
          \/ block.shape = "map" /\ ~block.empty
          \/ block.shape = "list" /\ block.n > 0 /\ ~block.empty
    IN  /\ ~extract_result.raised
        /\ f.versioning_enabled = 1 <=> (holds(p.versioning) /\ p.versioning.enabled)
        /\ f.logging_enabled = 1 <=> holds(p.logging)

\* C15: public_access is 1 iff the access-control value ("private" when
\* absent) contains "public", encryption_enabled is 1 iff the encryption key
\* is present whatever its value, sensitive_naming is 1 iff the bucket name
\* contains one of the six keywords in any case; so a public-read resource
\* without encryption key whose name contains "customer" gives 1, 0, 1.
C15_AccessEncryptionNaming ==
  (extract_pc = "returned" /\ ~extract_result.raised) =>
    LET f      == extract_result.features
        p      == extract_input.properties
        acl    == IF p.acl.has THEN p.acl.val ELSE <<"p", "r", "i", "v", "a", "t", "e">>
        name   == IF p.bucket.has THEN Lower(p.bucket.val) ELSE << >>
        public == Contains(<<"p", "u", "b", "l", "i", "c">>, acl)
        named  == \E k \in 1..6 : Contains(SensitiveKeywords[k], name)
    IN  /\ Len(SensitiveKeywords) = 6
        /\ f.public_access = 1 <=> public
        /\ f.encryption_enabled = 1 <=> p.sse.shape # Absent
        /\ f.sensitive_naming = 1 <=> named
        /\ (p.acl = Some(<<"p", "u", "b", "l", "i", "c", "-", "r", "e", "a", "d">>)
              /\ p.sse.shape = Absent
              /\ Contains(<<"c", "u", "s", "t", "o", "m", "e", "r">>, name))
             => (f.public_access = 1 /\ f.encryption_enabled = 0
                   /\ f.sensitive_naming = 1)

\* scenario A, and an encryption key that holds an empty mapping
C15_Witness ==
  /\ extract_pc = "returned" /\ ~extract_result.raised
  /\ extract_input.properties.acl = Some(<<"p", "u", "b", "l", "i", "c", "-", "r", "e", "a", "d">>)
  /\ extract_input.properties.bucket =
       Some(<<"P", "r", "o", "d", "-", "C", "u", "s", "t", "o", "m", "e", "r">>)
  /\ extract_input.properties.sse = MapBlock(TRUE, FALSE, FALSE)
  /\ extract_result.features.public_access = 1
  /\ extract_result.features.encryption_enabled = 1
  /\ extract_result.features.sensitive_naming = 1

\* C16: the problems list of a result holds one string for each of the six
\* conditions that applies (public access, missing encryption, missing
\* versioning, missing logging, sensitive naming, missing tags) and is the
\* single "no issues" marker iff none applies; it is never empty.
C16_ProblemsOfSixConditions ==
  (pc = "done" /\ outcome.kind = "result") =>
    LET applies ==
          <<features.public_access = 1, features.encryption_enabled = 0,
            features.versioning_enabled = 0, features.logging_enabled = 0,
            features.sensitive_naming = 1, features.has_tags = 0>>
        count == Cardinality({i \in 1..6 : applies[i]})
    IN  /\ outcome.problems # << >>
        /\ count = 0 <=> outcome.problems = <<"No major issues">>
        /\ count > 0 => Len(outcome.problems) = count

C18_FirstResourceOnly ==
  (pc = "done" /\ outcome.kind = "result") =>
    LET first == terraform_code.resources[1]
    IN  /\ outcome.resource = [type |-> first.type, name |-> first.name]
        /\ features = extract_security_features(first).features
        /\ X = DataFrame(features, feature_columns)
        /\ prompt.code.resources = <<first>>

\* C18 as amended: resource identity, features, the row given to the
\* classifier and the problems are those of the first declared resource; the
\* prompt names the first resource and its features but embeds the whole
\* text, so that the model's reply is the one way a later resource can
\* reach the scores and the decision.
C18_FirstResourceAndWholeText ==
  (pc = "done" /\ outcome.kind = "result") =>
    LET first == terraform_code.resources[1]
        f     == extract_security_features(first).features
    IN  /\ outcome.resource = [type |-> first.type, name |-> first.name]
        /\ features = f
        /\ X = DataFrame(f, feature_columns)
        /\ outcome.problems = _list_problems(f)
        /\ prompt = _create_security_prompt(terraform_code, first.name, f)
        /\ outcome.intent = llm_result.intent
        /\ outcome.risk_score = Round2(_fuse_scores(ml_score, llm_result.llm_risk_score.val,
                                                    llm_result.intent))

\* a text declaring secure_data and then customer_db has been analyzed
C18_Witness ==
  /\ pc = "done" /\ outcome.kind = "result"
  /\ terraform_code.resources = <<ResSecureData, ResCustomerDb>>
  /\ outcome.resource.name = "secure_data"
  /\ outcome.problems = <<"No major issues">>
  /\ prompt.code.resources[2] = ResCustomerDb

\* C19: in a batch of N configurations a failure while analyzing one of
\* them does not abort the others: the response carries a result for every
\* configuration but, at most, the one whose analysis failed.
C19_BatchSurvivesOneFailure ==
  (batch_pc = "returned" /\ batch_data.has_configurations) =>
    Len(batch_response.results) >= Len(batch_data.configurations) - 1

\* C20: a feature vector whose keys are not the columns the model was
\* trained on is reported as an error before any prediction is made: no
\* prediction is made from a row that dropped or padded features.
C20_FeatureMismatchIsAnError ==
  pc = "scored" => DOMAIN features = DOMAIN X

\* C21: a missing or corrupt model artifact is a startup failure: no
\* analysis request is accepted while the artifact is unavailable.
C21_ArtifactFailureAtStartup ==
  pc # "idle" => env.artifact

\* C24: an analysis sends at most one generation request to the provider,
\* none after a failed one, and after a failed request the analysis goes on
\* to a result made with the fallback assessment.
C24_OneRequestThenFallback ==
  /\ requests <= 1
  /\ (pc = "done" /\ provider_failed) => (requests = 1 /\ outcome.kind = "result")

\* C25: the line-based reply parser never raises and changes only the
\* fields it recognises: every field that no line of the reply names by its
\* prefix keeps its documented default (score 0.5, confidence 0.7, no
\* concerns, intent UNCERTAIN).
C25_ParserKeepsDefaults ==
  (context_pc = "returned" /\ ~response.raised) =>
    LET lines == Split(Strip(response.text), "\n")
        has(prefix) ==
          \E i \in 1..Len(lines) : StartsWith(UpperStr(Strip(lines[i])), prefix)
    IN  /\ ~has(<<"I", "N", "T", "E", "N", "T", ":">>) =>
             context_result.intent = "UNCERTAIN"
        /\ ~has(<<"R", "I", "S", "K", "_", "S", "C", "O", "R", "E", ":">>) =>
             context_result.llm_risk_score = FromRatio(5, 10)
        /\ ~has(<<"C", "O", "N", "F", "I", "D", "E", "N", "C", "E", ":">>) =>
             context_result.confidence = FromRatio(7, 10)
        /\ ~has(<<"C", "O", "N", "C", "E", "R", "N", "S", ":">>) =>
             context_result.concerns = << >>

\* C26: the provider is Bedrock whenever the Bedrock probe succeeds, OpenAI
\* iff the Bedrock probe fails and the OpenAI probe succeeds, construction
\* fails iff both fail; the stored client and model id are those of the
\* selected provider, and generate goes through that provider.
C26_ProviderSelection ==
  context.state # "unbuilt" =>
    LET bedrock == wrapper_env.aws_key /\ wrapper_env.bedrock_probe
        openai  == wrapper_env.openai_key /\ wrapper_env.openai_probe
        llm     == context.llm
    IN  /\ context.state = "raised" <=> (~bedrock /\ ~openai)
        /\ context.state = "built" =>
             /\ llm.provider = "bedrock" <=> bedrock
             /\ llm.provider = "openai" <=> (~bedrock /\ openai)
             /\ llm.provider = "bedrock" =>
                  /\ llm.client = "bedrock-runtime"
                  /\ llm.model_id = "anthropic.claude-3-sonnet-20240229-v1:0"
             /\ llm.provider = "openai" =>
                  /\ llm.client = "OpenAI"
                  /\ llm.model_id = "gpt-3.5-turbo"
             /\ (context_pc = "generated" /\ response.raised) =>
                  StartsWith(response.text,
                             IF llm.provider = "bedrock"
                             THEN <<"B", "e", "d", "r", "o", "c", "k", " ", "A", "P", "I">>
                             ELSE <<"O", "p", "e", "n", "A", "I", " ", "A", "P", "I">>)
             /\ (context_pc = "generated" /\ ~response.raised) =>
                  response.text \in ResponseTexts

\* OpenAI was selected after a Bedrock client had been stored and its probe
\* had failed, and a request has gone through it
C26_Witness ==
  /\ context.state = "built"
  /\ wrapper_env.aws_key /\ ~wrapper_env.bedrock_probe
  /\ context.llm.provider = "openai"
  /\ context.llm.client = "OpenAI"
  /\ context_pc = "generated"
  /\ ~response.raised

\* the hybrid threshold table on a score given in hundredths
TableOfHundredths(h, intent) ==
  IF h > 75 THEN "BLOCK"
  ELSE IF h > 45 THEN (IF intent = "ACCIDENTAL" THEN "BLOCK" ELSE "WARN")
  ELSE IF h > 25 THEN "WARN"
  ELSE "ALLOW"

\* C27 as stated: in every result of analyze, the hybrid threshold table
\* applied to the reported two-decimal risk_score and the reported intent
\* gives the reported decision.
C27_DecisionAgreesWithReported ==
  (pc = "done" /\ outcome.kind = "result") =>
    outcome.decision = TableOfHundredths(outcome.risk_score, outcome.intent)

\* C27 as amended: the reported risk_score is the two-decimal rounding of
\* the final score and the decision is the table's for the final score
\* itself: it is the table's decision for the reported score, except when
\* the final score lies above a threshold that the reported score was
\* rounded down onto, where it is the decision of the band above.
C27_DecisionOfUnroundedScore ==
  (pc = "done" /\ outcome.kind = "result") =>
    LET h == outcome.risk_score
    IN  /\ h = Round2(final_score)
        /\ outcome.intent = llm_result.intent
        /\ outcome.decision =
             IF h \in {25, 45, 75} /\ FGt(final_score, FromRatio(h, 100))
             THEN TableOfHundredths(h + 1, outcome.intent)
             ELSE TableOfHundredths(h, outcome.intent)

\* 0.5 * 0.7 + 0.35 * 0.3 is just under 0.455: reported as 0.45, and BLOCK
C27_Witness ==
  /\ pc = "done" /\ outcome.kind = "result"
  /\ outcome.intent = "ACCIDENTAL"
  /\ outcome.ml_score = 50 /\ outcome.llm_score = 35
  /\ outcome.risk_score = 45
  /\ outcome.decision = "BLOCK"

\* ALLOW < WARN < BLOCK
Severity(decision) ==
  CASE decision = "ALLOW" -> 0 [] decision = "WARN" -> 1 [] decision = "BLOCK" -> 2

\* C29: the hybrid decision is monotone in severity: for the intent of a
\* result, no higher score gives a less severe decision than the result's and
\* no lower score a more severe one, and for the final score of a result the
\* decision under ACCIDENTAL is never less severe than the result's.
C29_DecisionMonotone ==
  (pc = "done" /\ outcome.kind = "result") =>
    LET d == Severity(outcome.decision)
        i == llm_result.intent
    IN  /\ \A t \in MlScores :
             /\ FLe(final_score, t) => Severity(_make_decision(t, i)) >= d
             /\ FLe(t, final_score) => Severity(_make_decision(t, i)) <= d
        /\ Severity(_make_decision(final_score, "ACCIDENTAL")) >= d

\* a result of WARN for a score that ACCIDENTAL would have blocked, with
\* lower scores that are allowed and higher ones that are blocked
C29_Witness ==
  /\ pc = "done" /\ outcome.kind = "result"
  /\ llm_result.intent = "INTENTIONAL"
  /\ outcome.decision = "WARN"
  /\ _make_decision(final_score, "ACCIDENTAL") = "BLOCK"
  /\ \E t \in MlScores : FLt(t, final_score) /\ _make_decision(t, "INTENTIONAL") = "ALLOW"
  /\ \E t \in MlScores : FGt(t, final_score) /\ _make_decision(t, "INTENTIONAL") = "BLOCK"

(***************************************************************************)
(* Calls of the analysis entry points that run at the same time.  The      *)
(* server is started with threaded=True (app.py, lines 164-169), so each   *)
(* request runs on a thread of its own.  HybridAnalyzer.analyze writes the *)
(* text to /tmp/analysis.tf and parses that path (hybrid_analyzer.py,      *)
(* lines 25-29); analyze_terraform writes it to temp_terraform.tf in the   *)
(* system's temporary directory, parses that path and removes it           *)
(* (analyzer.py, lines 35-47).  The path of an entry point is the same for *)
(* every call.  A file that is not on disk is NoText.                      *)
(***************************************************************************)
InitConcurrent ==
  /\ ConcurrentIdle
  /\ env = [provider |-> "openai", openai_key |-> TRUE, artifact |-> TRUE]
  /\ HybridIdle
  /\ wrapper_env = [aws_key |-> FALSE, bedrock_probe |-> FALSE,
                    openai_key |-> TRUE, openai_probe |-> TRUE]
  /\ ContextIdle
  /\ extract_input = ResSsh
  /\ ExtractIdle
  /\ TerraformIdle
  /\ BatchIdle
  /\ CacheIdle

\* open(temp_path, 'w'): the file is created, or truncated if it is there
CallOpen(c) ==
  /\ calls[c].pc = "idle"
  /\ \E entry \in DOMAIN temp_files, text \in Texts :
       /\ calls' = [calls EXCEPT ![c] = [@ EXCEPT !.pc = "opened",
                                                   !.entry = entry,
                                                   !.terraform_code = text,
                                                   !.handle = TRUE]]
       /\ temp_files' = [temp_files EXCEPT ![entry] = Text("empty", << >>)]
  /\ UNCHANGED otherThanConcurrent

\* f.write(terraform_code) and the end of the with block: the text goes to
\* the file the handle was opened on, from offset 0.  On a file that was
\* removed since, the path stays as it is.  On a file another call has
\* written to since, the text overlays what is there: the text itself when
\* it is no shorter, else the text followed by the other's tail.
CallWrite(c) ==
  /\ calls[c].pc = "opened"
  /\ LET e == calls[c].entry
     IN  \E content \in {calls[c].terraform_code, Text("invalid", << >>)} :
           /\ \/ content = calls[c].terraform_code
              \/ calls[c].handle /\ temp_files[e] # Text("empty", << >>)
           /\ temp_files' = IF calls[c].handle
                            THEN [temp_files EXCEPT ![e] = content]
                            ELSE temp_files
  /\ calls' = [calls EXCEPT ![c].pc = "written"]
  /\ UNCHANGED otherThanConcurrent

\* parse_terraform_file(temp_path): open(file_path, 'r') is outside the try
\* of the parser (parse_terraform.py, lines 16-17), so a path that is not
\* there raises out of the entry point
CallParse(c) ==
  /\ calls[c].pc = "written"
  /\ LET read == temp_files[calls[c].entry]
     IN  calls' = [calls EXCEPT ![c] =
                     [@ EXCEPT !.pc = IF calls[c].entry = "analyze"
                                      THEN "done" ELSE "parsed",
                               !.parsed = IF read = NoText
                                          THEN [status |-> "raised",
                                                resources |-> << >>]
                                          ELSE parse_terraform_file(read)]]
  /\ UNCHANGED <<otherThanConcurrent, temp_files>>

\* analyze_terraform, lines 44-47: os.remove(temp_path), any failure passed
\* over.  A handle another call holds on the file no longer writes to the
\* path.
CallRemove(c) ==
  /\ calls[c].pc = "parsed"
  /\ calls[c].parsed.status # "raised"
  /\ temp_files' = [temp_files EXCEPT ![calls[c].entry] = NoText]
  /\ calls' = [d \in DOMAIN calls |->
                 IF d = c THEN [calls[d] EXCEPT !.pc = "done"]
                 ELSE IF calls[d].entry = calls[c].entry
                 THEN [calls[d] EXCEPT !.handle = FALSE]
                 ELSE calls[d]]
  /\ UNCHANGED otherThanConcurrent

\* the FileNotFoundError of the parser leaves analyze_terraform
CallRaise(c) ==
  /\ calls[c].pc = "parsed"
  /\ calls[c].parsed.status = "raised"
  /\ calls' = [calls EXCEPT ![c].pc = "done"]
  /\ UNCHANGED <<otherThanConcurrent, temp_files>>

NextConcurrent ==
  \/ \E c \in DOMAIN calls : CallOpen(c)
  \/ \E c \in DOMAIN calls : CallWrite(c)
  \/ \E c \in DOMAIN calls : CallParse(c)
  \/ \E c \in DOMAIN calls : CallRemove(c)
  \/ \E c \in DOMAIN calls : CallRaise(c)

SpecConcurrent == InitConcurrent /\ [][NextConcurrent]_vars

\* what a call running alone parses: the text it was given
ParsedAlone(c) == parse_terraform_file(calls[c].terraform_code)

\* C28: two calls of an analysis entry point that run together on different
\* texts do not interfere: a call that is done has parsed the text it was
\* given, and so returns the result for that text and does not fail for what
\* the other call did.
C28_CallsDoNotInterfere ==
  \A c, d \in DOMAIN calls :
    (/\ c # d
     /\ calls[c].pc = "done"
     /\ calls[d].pc # "idle"
     /\ calls[d].terraform_code # calls[c].terraform_code)
      => calls[c].parsed = ParsedAlone(c)

(***************************************************************************)
(* SimpleCache (utils/cache.py) and its module-level instance llm_cache.   *)
(* Time is counted in hours.  A dict from digests to entries is a function *)
(* on all digests that gives NoEntry where the dict has no item.  The      *)
(* values are strings and the creation times ISO texts, which json and     *)
(* fromisoformat give back as they were written.  The cache file is        *)
(* absent, truncated (empty), corrupt (not a JSON text) or the JSON text   *)
(* of a dict.  A call takes no time on the clock.  No method of the class  *)
(* takes a lock.                                                           *)
(***************************************************************************)
\* __init__, line 17
max_age_hours == 24

\* the last hour the clock reaches
MaxTime == 48

\* the threads that share llm_cache
MaxThreads == 2

\* the age test of get, line 37, taken one hour too far
not_expired_at_limit(age) == age <= max_age_hours

\* get, line 37: age < timedelta(hours=self.max_age_hours)
not_expired(age) == age < max_age_hours

\* _load_cache, lines 65-72: the dict of the file if the file is there and
\* json.load accepts it, {} if json.load raises, and self.cache as it is
\* (the {} of __init__) if there is no file
_load_cache(file) == IF file.kind = "json" THEN file.data ELSE IdleThread.snap

\* the process starts: SimpleCache.__init__, lines 15-23, at the import of
\* the module (line 111)
SimpleCache ==
  /\ \A t \in DOMAIN threads : threads[t].pc = "idle"
  /\ llm_cache' = [built |-> TRUE, cache |-> _load_cache(cache_file)]
  /\ UNCHANGED <<otherThanCache, now, cache_file, threads, last_set>>

\* get, lines 28-30 and 43: the membership test
Get(t) ==
  /\ llm_cache.built
  /\ threads[t].pc = "idle"
  /\ \E key \in Queries :
       threads' = [threads EXCEPT ![t] =
                     [IdleThread EXCEPT !.op = "get", !.key = key,
                        !.pc = IF llm_cache.cache[_hash_key(key)].has
                               THEN "get_entry" ELSE "returned"]]
  /\ UNCHANGED <<otherThanCache, now, cache_file, llm_cache, last_set>>

\* get, lines 31-38: the entry is read (KeyError if it is no longer there)
\* and its age tested
GetEntry(t) ==
  /\ threads[t].pc = "get_entry"
  /\ LET entry == llm_cache.cache[_hash_key(threads[t].key)]
     IN  threads' = [threads EXCEPT ![t] =
           IF ~entry.has
           THEN [@ EXCEPT !.pc = "returned", !.raised = "KeyError"]
           ELSE IF not_expired(now - entry.created)
           THEN [@ EXCEPT !.pc = "returned", !.ret = entry.value]
           ELSE [@ EXCEPT !.pc = "get_del"]]
  /\ UNCHANGED <<otherThanCache, now, cache_file, llm_cache, last_set>>

\* get, lines 39-43: the expired entry is deleted (KeyError if it is no
\* longer there) and None returned; the file is not written
GetDelete(t) ==
  /\ threads[t].pc = "get_del"
  /\ LET cache_key == _hash_key(threads[t].key)
     IN  IF llm_cache.cache[cache_key].has
         THEN /\ llm_cache' = [llm_cache EXCEPT !.cache[cache_key] = NoEntry]
              /\ threads' = [threads EXCEPT ![t].pc = "returned"]
         ELSE /\ llm_cache' = llm_cache
              /\ threads' = [threads EXCEPT ![t].pc = "returned",
                                            ![t].raised = "KeyError"]
  /\ UNCHANGED <<otherThanCache, now, cache_file, last_set>>

\* set as it would be if an entry that is there kept its creation time
Set_keeps_created(t) ==
  /\ llm_cache.built
  /\ threads[t].pc = "idle"
  /\ \E key \in Queries, value \in {"v1", "v2"} :
       LET cache_key == _hash_key(key)
           old == llm_cache.cache[cache_key]
       IN  /\ llm_cache' = [llm_cache EXCEPT !.cache[cache_key] =
                              [has |-> TRUE, value |-> value,
                               created |-> IF old.has THEN old.created ELSE now]]
           /\ last_set' = [last_set EXCEPT ![cache_key] =
                             [state |-> "set", value |-> value, at |-> now]]
           /\ threads' = [threads EXCEPT ![t] =
                            [IdleThread EXCEPT !.op = "set", !.key = key,
                                               !.pc = "save_open"]]
  /\ UNCHANGED <<otherThanCache, now, cache_file>>

\* set, lines 48-53: the entry is stored with the time of the call
Set(t) ==
  /\ llm_cache.built
  /\ threads[t].pc = "idle"
  /\ \E key \in Queries, value \in {"v1", "v2"} :
       LET cache_key == _hash_key(key)
       IN  /\ llm_cache' = [llm_cache EXCEPT !.cache[cache_key] =
                              [has |-> TRUE, value |-> value, created |-> now]]
           /\ last_set' = [last_set EXCEPT ![cache_key] =
                             [state |-> "set", value |-> value, at |-> now]]
           /\ threads' = [threads EXCEPT ![t] =
                            [IdleThread EXCEPT !.op = "set", !.key = key,
                                               !.pc = "save_open"]]
  /\ UNCHANGED <<otherThanCache, now, cache_file>>

\* clear, line 87: self.cache is bound to a new, empty dict.  A save that is
\* writing the old dict goes on writing the old dict.
Clear(t) ==
  /\ llm_cache.built
  /\ threads[t].pc = "idle"
  /\ llm_cache' = [llm_cache EXCEPT !.cache = IdleThread.snap]
  /\ last_set' = [h \in DOMAIN last_set |->
                    [state |-> "cleared", value |-> "None", at |-> now]]
  /\ threads' = [u \in DOMAIN threads |->
                   IF u = t THEN [IdleThread EXCEPT !.op = "clear", !.pc = "save_open"]
                   ELSE IF threads[u].pc = "save_dump"
                   THEN [threads[u] EXCEPT !.rebound = TRUE]
                   ELSE threads[u]]
  /\ UNCHANGED <<otherThanCache, now, cache_file>>

\* _save_cache, lines 77-81: open(cache_file, 'w') creates or truncates the
\* file, and json.dump starts to go through the items of self.cache
SaveOpen(t) ==
  /\ threads[t].pc = "save_open"
  /\ cache_file' = [kind |-> "truncated", data |-> IdleThread.snap]
  /\ threads' = [threads EXCEPT ![t].pc = "save_dump",
                                ![t].snap = llm_cache.cache,
                                ![t].rebound = FALSE]
  /\ UNCHANGED <<otherThanCache, now, llm_cache, last_set>>

\* _save_cache, lines 80-83: json.dump goes through the dict it started on
\* and the file is closed.  A dict whose size changed since raises
\* RuntimeError, which the bare except passes over after what was written so
\* far has gone to the file.  The text goes to the file from offset 0: over
\* a longer text another thread has written since the open it leaves that
\* text's tail, and over another thread's unfinished text it may.
SaveDump(t) ==
  /\ threads[t].pc = "save_dump"
  /\ LET dict == IF threads[t].rebound THEN threads[t].snap ELSE llm_cache.cache
         keys(d) == {h \in DOMAIN d : d[h].has}
         text == [kind |-> "json", data |-> dict]
         corrupt == [kind |-> "corrupt", data |-> IdleThread.snap]
     IN  \E written \in {text, corrupt} :
           /\ keys(dict) # keys(threads[t].snap) => written = corrupt
           /\ (/\ keys(dict) = keys(threads[t].snap)
               /\ written = corrupt)
                => \/ cache_file.kind = "corrupt"
                   \/ /\ cache_file.kind = "json"
                      /\ Cardinality(keys(cache_file.data)) > Cardinality(keys(dict))
           /\ (/\ keys(dict) = keys(threads[t].snap)
               /\ written = text)
                => ~ /\ cache_file.kind = "json"
                     /\ Cardinality(keys(cache_file.data)) > Cardinality(keys(dict))
           /\ cache_file' = written
  /\ threads' = [threads EXCEPT ![t].pc = "returned"]
  /\ UNCHANGED <<otherThanCache, now, llm_cache, last_set>>

\* the call returns to its caller
Return(t) ==
  /\ threads[t].pc = "returned"
  /\ threads' = [threads EXCEPT ![t] = IdleThread]
  /\ UNCHANGED <<otherThanCache, now, cache_file, llm_cache, last_set>>

\* time passes between calls: the clock is read at hours 0, 1, 24, 25, ...
Tick ==
  /\ \A t \in DOMAIN threads : threads[t].pc = "idle"
  /\ now' = IF now % max_age_hours = 0 THEN now + 1 ELSE now + max_age_hours - 1
  /\ now' <= MaxTime
  /\ UNCHANGED <<otherThanCache, cache_file, llm_cache, threads, last_set>>

\* n threads, no cache built yet, and on disk what an earlier process left:
\* no file, a file that is no JSON text, or the file of a dict whose entries
\* were made 23 or 24 hours ago
CacheStart(n) ==
  /\ now = 0
  /\ cache_file \in
       {[kind |-> k, data |-> IdleThread.snap] : k \in {"absent", "corrupt"}}
       \cup {[kind |-> "json", data |-> d] :
               d \in [DOMAIN IdleThread.snap ->
                        {NoEntry}
                        \cup {[has |-> TRUE, value |-> "v1", created |-> c] :
                                c \in {0 - max_age_hours, 1 - max_age_hours}}]}
  /\ llm_cache = [built |-> FALSE, cache |-> IdleThread.snap]
  /\ threads = [t \in 1..n |-> IdleThread]
  /\ last_set = [h \in DOMAIN IdleThread.snap |->
                   [state |-> "never", value |-> "None", at |-> 0]]
  /\ env = [provider |-> "openai", openai_key |-> TRUE, artifact |-> TRUE]
  /\ HybridIdle
  /\ wrapper_env = [aws_key |-> FALSE, bedrock_probe |-> FALSE,
                    openai_key |-> TRUE, openai_probe |-> TRUE]
  /\ ContextIdle
  /\ extract_input = ResSsh
  /\ ExtractIdle
  /\ TerraformIdle
  /\ BatchIdle
  /\ ConcurrentIdle

\* one caller
InitCache == CacheStart(1)

\* the request threads of the server share the instance
InitCacheThreads == CacheStart(MaxThreads)

NextCache ==
  \/ SimpleCache
  \/ \E t \in DOMAIN threads : Get(t)
  \/ \E t \in DOMAIN threads : GetEntry(t)
  \/ \E t \in DOMAIN threads : GetDelete(t)
  \/ \E t \in DOMAIN threads : Set(t)
  \/ \E t \in DOMAIN threads : Clear(t)
  \/ \E t \in DOMAIN threads : SaveOpen(t)
  \/ \E t \in DOMAIN threads : SaveDump(t)
  \/ \E t \in DOMAIN threads : Return(t)
  \/ Tick

SpecCache == InitCache /\ [][NextCache]_vars
SpecCacheThreads == InitCacheThreads /\ [][NextCache]_vars

\* C22: get never returns the value of a stale entry: a get that has
\* returned gave the value of the entry of its key if that entry is less
\* than 24 hours old, and None if it is 24 hours old or older or there is no
\* entry, entries loaded from the file at construction included.
C22_NoStaleValue ==
  \A t \in DOMAIN threads :
    (threads[t].pc = "returned" /\ threads[t].op = "get") =>
      LET entry == llm_cache.cache[_hash_key(threads[t].key)]
      IN  threads[t].ret = IF entry.has /\ now - entry.created < 24
                           THEN entry.value ELSE "None"

\* a get has returned None for an entry that the file still holds and that
\* is exactly 24 hours old
C22_Witness ==
  \E t \in DOMAIN threads :
    LET cache_key == _hash_key(threads[t].key)
    IN  /\ threads[t].pc = "returned" /\ threads[t].op = "get"
        /\ threads[t].ret = "None"
        /\ cache_file.kind = "json"
        /\ cache_file.data[cache_key].has
        /\ now - cache_file.data[cache_key].created = 24
        /\ ~llm_cache.cache[cache_key].has

\* C30: the round trip of one caller: a get of a key returns the value of
\* the last set of that key if that set was made less than 24 hours ago and
\* no clear was made since, whatever was set for the key before; and it
\* returns None if a clear was made and the key has not been set since.
C30_RoundTrip ==
  \A t \in DOMAIN threads :
    (threads[t].pc = "returned" /\ threads[t].op = "get") =>
      LET last == last_set[_hash_key(threads[t].key)]
      IN  /\ (last.state = "set" /\ now - last.at < 24) => threads[t].ret = last.value
          /\ last.state = "cleared" => threads[t].ret = "None"

\* a get at hour 48 has returned the value set at hour 25, and the other key
\* was cleared and not set again
C30_Witness ==
  \E t \in DOMAIN threads :
    LET last == last_set[_hash_key(threads[t].key)]
    IN  /\ threads[t].pc = "returned" /\ threads[t].op = "get"
        /\ last.state = "set" /\ last.at = 25 /\ now = 48
        /\ threads[t].ret = "v2"
        /\ \E h \in DOMAIN last_set : last_set[h].state = "cleared"

\* C23: the cache is safe under concurrent access: no call of get, set or
\* clear raises, and once every call has returned, each entry that was set
\* less than 24 hours ago and not overwritten or cleared since is in
\* self.cache and in the cache file, as it was set.
C23_SafeUnderConcurrency ==
  /\ \A t \in DOMAIN threads : threads[t].raised = ""
  /\ (\A t \in DOMAIN threads : threads[t].pc = "idle") =>
       \A h \in DOMAIN last_set :
         (last_set[h].state = "set" /\ now - last_set[h].at < 24) =>
           LET entry == [has |-> TRUE, value |-> last_set[h].value,
                         created |-> last_set[h].at]
           IN  /\ llm_cache.cache[h] = entry
               /\ cache_file.kind = "json"
               /\ cache_file.data[h] = entry

====
